---- MODULE Spec2Model ----
(***************************************************************************)
(* A model of the earendil daemon's packet substrate: the peel-forward     *)
(* engine and the socket registry (src/src/daemon.rs, daemon/socket.rs),   *)
(* the rendezvous forwarder (daemon.rs), the per-neighbour gossip loop    *)
(* (daemon/gossip.rs), route_to_instructs and main_daemon's supervision    *)
(* (daemon.rs), and haven connections (src/src/haven.rs).                  *)
(*                                                                         *)
(* Fingerprints are small integers, ordered as the byte strings are.       *)
(* A supervised loop (Immortal::respawn, RespawnStrategy::Immediate) is a  *)
(* position "running" / "failed": an iteration that returns Err moves it   *)
(* to "failed", and the supervisor's respawn moves it back.                *)
(***************************************************************************)
EXTENDS Integers, Sequences, FiniteSets, TLC

(***************************************************************************)
(* Bounds of the model.                                                    *)
(***************************************************************************)
\* raw packets that arrive at the node in one run of Spec
MaxPkts == 3
\* raw packets that arrive at the node in one run of SocketSpec
MaxMsgs == 4
\* raw packets waiting in the neighbour table's queue at one time
MaxBacklog == 2
\* sockets bound in one run
MaxSockets == 2
\* capacity of a socket's inbound channel.  The source binds it with
\* smol::channel::bounded(1000) (daemon/socket.rs:20); the model keeps the
\* capacity as a parameter and checks with a small one.
QueueCap == 2

(***************************************************************************)
(* The node, its neighbours, its local identities.                         *)
(***************************************************************************)
\* ctx.identity.public().fingerprint() of the node under study
SelfFp == 2
\* fingerprints of the nodes it may hold a link session with
Peers == {1}
\* fingerprint of the anonymous identity a reply degarbler carries
AnonFp == 7
\* docks messages are addressed to
DockA == "dockA"
DockB == "dockB"
Docks == {DockA, DockB}

Endpoint(fp, dock) == [fingerprint |-> fp, dock |-> dock]

\* the endpoints a socket of this node can be registered under
LocalEndpoints == {Endpoint(SelfFp, DockA), Endpoint(AnonFp, DockA)}
AllLocalEndpoints == {Endpoint(fp, d) : fp \in {SelfFp, AnonFp}, d \in Docks}

\* the fingerprints a packet's sender can have; 9 is a remote anonymous sender
SenderFps == {1, 3, 9}

(***************************************************************************)
(* Packets.  A raw packet is one onion layer sealed to an onion key; the   *)
(* key is named by the fingerprint of its holder.  Peeling with the right  *)
(* key yields the layer, with any other key it fails.                      *)
(***************************************************************************)
Message(src_dock, dest_dock, body) ==
    [type |-> "Message", src_dock |-> src_dock, dest_dock |-> dest_dock,
     body |-> body, blocks |-> <<>>]
ReplyBlocks(blocks) ==
    [type |-> "ReplyBlocks", src_dock |-> "", dest_dock |-> "",
     body |-> "", blocks |-> blocks]

Forward(to, key) ==
    [key |-> key, kind |-> "Forward", to |-> to, from |-> 0, id |-> 0,
     gkey |-> "", inner |-> ReplyBlocks(<<>>)]
Received(from, inner, key) ==
    [key |-> key, kind |-> "Received", to |-> 0, from |-> from, id |-> 0,
     gkey |-> "", inner |-> inner]
\* a garbled reply: inner and from are what the degarbler holding gkey reads
GarbledReply(id, gkey, from, inner, key) ==
    [key |-> key, kind |-> "GarbledReply", to |-> 0, from |-> from, id |-> id,
     gkey |-> gkey, inner |-> inner]

\* ids of reply degarblers, and the degarbler registered under an id
DegarblerIds == {1}
GoodGKey == "gk-good"
BadGKey == "gk-bad"
DegarblerOf(id) == [my_anon_fp |-> AnonFp, gkey |-> GoodGKey]

\* the raw packets the neighbours and the node's own senders put in the table
RawPackets ==
    { Forward(1, 1),                                  \* sealed to another node's key
      Forward(1, SelfFp),
      Received(1, Message("dockS", DockA, "m"), SelfFp),
      Received(1, ReplyBlocks(<<"rb1", "rb2">>), SelfFp),
      Received(3, ReplyBlocks(<<>>), SelfFp),
      GarbledReply(1, GoodGKey, 9, Message("dockS", DockA, "r"), SelfFp),
      GarbledReply(1, BadGKey, 9, Message("dockS", DockA, "r"), SelfFp) }

(***************************************************************************)
(* State.                                                                  *)
(***************************************************************************)
VARIABLES
    table_queue,        \* ctx.table: raw packets received and not yet taken
    table_sessions,     \* ctx.table: fingerprints with a live link session
    taken,              \* the raw packets recv_raw_packet has returned, in order
    link_out,           \* what send_raw_packet was called with, in order
    socket_recv_queues, \* ctx.socket_recv_queues: endpoint -> channel (0: none)
    channels,           \* channel -> the (Message, Fingerprint) pairs queued
    n_sockets,          \* sockets bound so far; a bind creates channel n_sockets+1
    dropped_sockets,    \* channels whose Socket (the Receiver) was dropped
    recv_log,           \* channel -> what recv_from has returned, in order
    anon_destinations,  \* ctx.anon_destinations: fingerprint -> blocks inserted
    degarblers,         \* ctx.degarblers: the ids with a degarbler
    peel_forward,       \* the supervised peel_forward_loop: "running" / "failed"
    restart_log         \* log_error's warnings: the errors the loops returned

peel_vars == <<table_queue, table_sessions, taken, link_out, socket_recv_queues,
               channels, n_sockets, dropped_sockets, recv_log, anon_destinations,
               degarblers, peel_forward, restart_log>>

NoError == "none"

PeelInit ==
    /\ table_queue = <<>>
    /\ table_sessions = {}
    /\ taken = <<>>
    /\ link_out = <<>>
    /\ socket_recv_queues = [e \in AllLocalEndpoints |-> 0]
    /\ channels = [c \in 1..MaxSockets |-> <<>>]
    /\ n_sockets = 0
    /\ dropped_sockets = {}
    /\ recv_log = [c \in 1..MaxSockets |-> <<>>]
    /\ anon_destinations = [f \in SenderFps |-> <<>>]
    /\ degarblers = {}
    /\ peel_forward = "running"
    /\ restart_log = <<>>

(***************************************************************************)
(* The peel-forward engine (daemon.rs, peel_forward_loop).                 *)
(*                                                                         *)
(* Every entry a packet leaves behind carries pid, the packet's position   *)
(* in `taken`, so that a packet's effects can be read off the state.       *)
(***************************************************************************)

\* pkt.peel(&ctx.onion_sk): the layer, or an error under a foreign key
peel(pkt, onion_sk) ==
    IF pkt.key = onion_sk THEN [ok |-> TRUE, peeled |-> pkt]
                          ELSE [ok |-> FALSE, peeled |-> pkt]

\* reply_degarbler.degarble(&mut pkt): (inner, src_fp), or an error
degarble(degarbler, pkt) ==
    IF pkt.gkey = degarbler.gkey
        THEN [ok |-> TRUE, inner |-> pkt.inner, src_fp |-> pkt.from]
        ELSE [ok |-> FALSE, inner |-> pkt.inner, src_fp |-> pkt.from]

\* what one iteration leaves behind: the error it returned (NoError: none) and
\* the new values of the link output, the channels and anon_destinations
Effect(err, link, chans, anon) ==
    [err |-> err, link |-> link, chans |-> chans, anon |-> anon]
NoEffect(err) == Effect(err, link_out, channels, anon_destinations)

\* try_send without the capacity test: a full channel takes the message
try_send_unbounded(c, item) ==
    IF c \in dropped_sockets
        THEN [err |-> "Closed", chans |-> channels]
        ELSE [err |-> NoError, chans |-> [channels EXCEPT ![c] = Append(@, item)]]

\* Sender::try_send on a channel made by smol::channel::bounded(QueueCap)
try_send(c, item) ==
    IF c \in dropped_sockets
        THEN [err |-> "Closed", chans |-> channels]
    ELSE IF Len(channels[c]) >= QueueCap
        THEN [err |-> "Full", chans |-> channels]
    ELSE [err |-> NoError, chans |-> [channels EXCEPT ![c] = Append(@, item)]]

\* the loop stopping after the first block of the batch
insert_all_first(anon, src_fp, reply_blocks, pid) ==
    IF reply_blocks = <<>> THEN anon
    ELSE [anon EXCEPT ![src_fp] =
                Append(@, [block |-> Head(reply_blocks), pid |-> pid])]

\* for reply_block in reply_blocks { anon_destinations.insert(src_fp, reply_block) }
RECURSIVE insert_all(_, _, _, _)
insert_all(anon, src_fp, reply_blocks, pid) ==
    IF reply_blocks = <<>> THEN anon
    ELSE insert_all([anon EXCEPT ![src_fp] =
                        Append(@, [block |-> Head(reply_blocks), pid |-> pid])],
                    src_fp, Tail(reply_blocks), pid)

\* the lookup by dock alone: any socket bound on dest_dock takes the message
process_inner_pkt_by_dock(inner, src_fp, dest_fp, pid) ==
    IF inner.type = "Message" THEN
        LET bound == {e \in AllLocalEndpoints :
                        e.dock = inner.dest_dock /\ socket_recv_queues[e] # 0}
        IN  IF bound # {}
                THEN LET dest == CHOOSE e \in bound : TRUE
                         r == try_send(socket_recv_queues[dest],
                                       [msg |-> inner, from |-> src_fp, pid |-> pid])
                     IN  Effect(r.err, link_out, r.chans, anon_destinations)
                ELSE NoEffect("NoSocketListening")
    ELSE
        Effect(NoError, link_out, channels,
               insert_all(anon_destinations, src_fp, inner.blocks, pid))

process_inner_pkt(inner, src_fp, dest_fp, pid) ==
    IF inner.type = "Message" THEN
        LET dest == Endpoint(dest_fp, inner.dest_dock)
            send_incoming == socket_recv_queues[dest]
        IN  IF dest \in AllLocalEndpoints /\ send_incoming # 0
                THEN LET r == try_send(send_incoming,
                                       [msg |-> inner, from |-> src_fp, pid |-> pid])
                     IN  Effect(r.err, link_out, r.chans, anon_destinations)
                ELSE NoEffect("NoSocketListening")
    ELSE
        Effect(NoError, link_out, channels,
               insert_all(anon_destinations, src_fp, inner.blocks, pid))

\* a missing session passed over in silence
forward_silent(next_hop, pid) ==
    IF next_hop \in table_sessions
        THEN Effect(NoError, Append(link_out, [to |-> next_hop, pid |-> pid]),
                    channels, anon_destinations)
        ELSE NoEffect(NoError)

\* the packet handed to the link layer whether or not a session exists
forward_buffered(next_hop, pid) ==
    Effect(NoError, Append(link_out, [to |-> next_hop, pid |-> pid]),
           channels, anon_destinations)

\* PeeledPacket::Forward { to, pkt }
forward(next_hop, pid) ==
    IF next_hop \in table_sessions
        THEN Effect(NoError, Append(link_out, [to |-> next_hop, pid |-> pid]),
                    channels, anon_destinations)
        ELSE NoEffect("NoNextHop")

\* the degarbled message delivered under the node's own fingerprint
garbled_reply_self(pkt, pid) ==
    IF pkt.id \notin degarblers THEN NoEffect("NoDegarbler")
    ELSE LET reply_degarbler == DegarblerOf(pkt.id)
             d == degarble(reply_degarbler, pkt)
         IN  IF ~d.ok THEN NoEffect("DegarbleFailed")
             ELSE process_inner_pkt(d.inner, d.src_fp, SelfFp, pid)

\* PeeledPacket::GarbledReply { id, pkt }
garbled_reply(pkt, pid) ==
    IF pkt.id \notin degarblers THEN NoEffect("NoDegarbler")
    ELSE LET reply_degarbler == DegarblerOf(pkt.id)
             d == degarble(reply_degarbler, pkt)
         IN  IF ~d.ok THEN NoEffect("DegarbleFailed")
             ELSE process_inner_pkt(d.inner, d.src_fp, reply_degarbler.my_anon_fp, pid)

\* one iteration of the loop on the packet recv_raw_packet returned
peel_and_process(pkt, pid) ==
    LET p == peel(pkt, SelfFp)
    IN  IF ~p.ok THEN NoEffect("PeelFailed")
        ELSE IF p.peeled.kind = "Forward" THEN forward(p.peeled.to, pid)
        ELSE IF p.peeled.kind = "Received"
            THEN process_inner_pkt(p.peeled.inner, p.peeled.from, SelfFp, pid)
        ELSE garbled_reply(p.peeled, pid)

\* the packet the loop takes next from the table's queue
recv_raw_packet == Head(table_queue)

peel_forward_loop ==
    /\ peel_forward = "running"
    /\ table_queue # <<>>
    /\ LET pkt == recv_raw_packet
           pid == Len(taken) + 1
           e   == peel_and_process(pkt, pid)
       IN  /\ table_queue' = Tail(table_queue)
           /\ taken' = Append(taken, pkt)
           /\ link_out' = e.link
           /\ channels' = e.chans
           /\ anon_destinations' = e.anon
           /\ peel_forward' = IF e.err = NoError THEN "running" ELSE "failed"
           /\ restart_log' = IF e.err = NoError THEN restart_log
                             ELSE Append(restart_log,
                                         [label |-> "peel_forward", err |-> e.err,
                                          pid |-> pid])
    /\ UNCHANGED <<table_sessions, socket_recv_queues, n_sockets, dropped_sockets,
                   recv_log, degarblers>>

\* Immortal::respawn(RespawnStrategy::Immediate, ...) starts the loop again
respawn_peel_forward ==
    /\ peel_forward = "failed"
    /\ peel_forward' = "running"
    /\ UNCHANGED <<table_queue, table_sessions, taken, link_out, socket_recv_queues,
                   channels, n_sockets, dropped_sockets, recv_log, anon_destinations,
                   degarblers, restart_log>>

(***************************************************************************)
(* The engine's surroundings: the neighbour table, the sockets, the        *)
(* degarbler registry.                                                     *)
(***************************************************************************)

\* a link session (or inject_as_if_incoming) puts a raw packet in the table
arrive(pkt, max) ==
    /\ Len(taken) + Len(table_queue) < max
    /\ Len(table_queue) < MaxBacklog
    /\ table_queue' = Append(table_queue, pkt)
    /\ UNCHANGED <<table_sessions, taken, link_out, socket_recv_queues, channels,
                   n_sockets, dropped_sockets, recv_log, anon_destinations,
                   degarblers, peel_forward, restart_log>>

\* a link session with neighbour fp is established: table.insert
link_up(fp) ==
    /\ fp \notin table_sessions
    /\ table_sessions' = table_sessions \cup {fp}
    /\ UNCHANGED <<table_queue, taken, link_out, socket_recv_queues, channels,
                   n_sockets, dropped_sockets, recv_log, anon_destinations,
                   degarblers, peel_forward, restart_log>>

\* the session with neighbour fp ends (transport error, garbage_collect)
link_down(fp) ==
    /\ fp \in table_sessions
    /\ table_sessions' = table_sessions \ {fp}
    /\ UNCHANGED <<table_queue, taken, link_out, socket_recv_queues, channels,
                   n_sockets, dropped_sockets, recv_log, anon_destinations,
                   degarblers, peel_forward, restart_log>>

\* bind leaving an earlier registration of the endpoint in place
bind_beside(endpoint) ==
    /\ n_sockets < MaxSockets
    /\ n_sockets' = n_sockets + 1
    /\ socket_recv_queues' =
            IF socket_recv_queues[endpoint] = 0
                THEN [socket_recv_queues EXCEPT ![endpoint] = n_sockets + 1]
                ELSE socket_recv_queues
    /\ UNCHANGED <<table_queue, table_sessions, taken, link_out, channels,
                   dropped_sockets, recv_log, anon_destinations, degarblers,
                   peel_forward, restart_log>>

\* Socket::bind: a new bounded channel, its sending end registered under the
\* socket's endpoint in place of whatever was registered there
bind(endpoint) ==
    /\ n_sockets < MaxSockets
    /\ n_sockets' = n_sockets + 1
    /\ socket_recv_queues' = [socket_recv_queues EXCEPT ![endpoint] = n_sockets + 1]
    /\ UNCHANGED <<table_queue, table_sessions, taken, link_out, channels,
                   dropped_sockets, recv_log, anon_destinations, degarblers,
                   peel_forward, restart_log>>

\* recv_from handing out the newest queued message
recv_from_last(c) ==
    /\ c \in 1..n_sockets
    /\ c \notin dropped_sockets
    /\ channels[c] # <<>>
    /\ recv_log' = [recv_log EXCEPT ![c] = Append(@, channels[c][Len(channels[c])])]
    /\ channels' = [channels EXCEPT ![c] = SubSeq(@, 1, Len(@) - 1)]
    /\ UNCHANGED <<table_queue, table_sessions, taken, link_out, socket_recv_queues,
                   n_sockets, dropped_sockets, anon_destinations, degarblers,
                   peel_forward, restart_log>>

\* Socket::recv_from: the next queued (Message, Fingerprint); it waits on an
\* empty channel
recv_from(c) ==
    /\ c \in 1..n_sockets
    /\ c \notin dropped_sockets
    /\ channels[c] # <<>>
    /\ recv_log' = [recv_log EXCEPT ![c] = Append(@, Head(channels[c]))]
    /\ channels' = [channels EXCEPT ![c] = Tail(@)]
    /\ UNCHANGED <<table_queue, table_sessions, taken, link_out, socket_recv_queues,
                   n_sockets, dropped_sockets, anon_destinations, degarblers,
                   peel_forward, restart_log>>

\* the Socket value is dropped: its Receiver closes the channel, the sending
\* end stays registered
drop_socket(c) ==
    /\ c \in 1..n_sockets
    /\ c \notin dropped_sockets
    /\ dropped_sockets' = dropped_sockets \cup {c}
    /\ UNCHANGED <<table_queue, table_sessions, taken, link_out, socket_recv_queues,
                   channels, n_sockets, recv_log, anon_destinations, degarblers,
                   peel_forward, restart_log>>

\* an anonymous sender of this node registers the degarbler of a reply block
register_degarbler(id) ==
    /\ id \notin degarblers
    /\ degarblers' = degarblers \cup {id}
    /\ UNCHANGED <<table_queue, table_sessions, taken, link_out, socket_recv_queues,
                   channels, n_sockets, dropped_sockets, recv_log, anon_destinations,
                   peel_forward, restart_log>>

(***************************************************************************)
(* The rendezvous forwarder (daemon.rs, rendezvous_forward_loop).          *)
(***************************************************************************)
MaxReqs == 3        \* forward requests sent to the relay in a behaviour
MaxRdvBacklog == 2  \* forward requests queued on the forwarder's socket

HAVEN_FORWARD_DOCK == "haven_forward_dock"

\* the endpoints that talk through this relay: a client, a haven, a stranger
ClientEp == Endpoint(3, "dockC")
HavenEp == Endpoint(5, "dockH")
OtherEp == Endpoint(4, "dockX")
RdvEndpoints == {ClientEp, HavenEp, OtherEp}

\* the fingerprints that register as havens with this relay
HavenFps == {HavenEp.fingerprint}

\* the bytes of a request: the encoding of (inner, dest_ep), or bytes that
\* stdcode::deserialize rejects
ForwardReq(inner, dest_ep) == [wellformed |-> TRUE, inner |-> inner, dest_ep |-> dest_ep]
Garbage == [wellformed |-> FALSE, inner |-> "none", dest_ep |-> OtherEp]
RdvMsgs == {ForwardReq("hs", d) : d \in RdvEndpoints} \cup {Garbage}

VARIABLES
    rdv_inbox,          \* the forwarder's socket: (msg, src_endpoint) pairs queued
    rdv_taken,          \* what socket.recv_from has returned to the forwarder
    registered_havens,  \* ctx.registered_havens: the fingerprints registered
    seen_srcs,          \* the loop's cache of (Endpoint, Endpoint) pairs
    rdv_sent,           \* the calls of socket.send_to, in order
    rdv_forward,        \* the supervised loop: "running" / "failed"
    rdv_log,            \* log_error's warnings for "haven_forward_loop"
    rdv_evicted         \* the pairs the cache evicted, and after how many requests

rdv_vars == <<rdv_inbox, rdv_taken, registered_havens, seen_srcs, rdv_sent,
              rdv_forward, rdv_log, rdv_evicted>>

RdvInit ==
    /\ rdv_inbox = <<>>
    /\ rdv_taken = <<>>
    /\ registered_havens = {}
    /\ seen_srcs = {}
    /\ rdv_sent = <<>>
    /\ rdv_forward = "running"
    /\ rdv_log = <<>>
    /\ rdv_evicted = {}

is_valid_dest(dest_ep) == dest_ep.fingerprint \in registered_havens

\* the lookup in the order of the insert
is_seen_src_as_inserted(dest_ep, src_endpoint) == <<src_endpoint, dest_ep>> \in seen_srcs

is_seen_src(dest_ep, src_endpoint) == <<dest_ep, src_endpoint>> \in seen_srcs

\* one iteration of the loop on the request socket.recv_from returned;
\* send_ok: whether socket.send_to, if called, returns Ok
rendezvous_forward_loop(send_ok) ==
    /\ rdv_forward = "running"
    /\ rdv_inbox # <<>>
    /\ LET msg == Head(rdv_inbox).msg
           src_endpoint == Head(rdv_inbox).src
           rid == Len(rdv_taken) + 1
           dest_ep == msg.dest_ep
           fail(err) == /\ rdv_forward' = "failed"
                        /\ rdv_log' = Append(rdv_log, [err |-> err, rid |-> rid])
       IN  /\ rdv_inbox' = Tail(rdv_inbox)
           /\ rdv_taken' = Append(rdv_taken, Head(rdv_inbox))
           /\ IF ~msg.wellformed
                THEN /\ send_ok
                     /\ fail("Deserialize")
                     /\ UNCHANGED <<seen_srcs, rdv_sent>>
                ELSE /\ seen_srcs' = IF is_valid_dest(dest_ep)
                                        THEN seen_srcs \cup {<<src_endpoint, dest_ep>>}
                                        ELSE seen_srcs
                     /\ IF is_valid_dest(dest_ep) \/ is_seen_src(dest_ep, src_endpoint)
                            THEN /\ rdv_sent' = Append(rdv_sent,
                                        [to |-> dest_ep, inner |-> msg.inner,
                                         src |-> src_endpoint, ok |-> send_ok,
                                         rid |-> rid,
                                         valid |-> is_valid_dest(dest_ep)])
                                 /\ IF send_ok THEN UNCHANGED <<rdv_forward, rdv_log>>
                                               ELSE fail("SendFailed")
                            ELSE /\ send_ok
                                 /\ UNCHANGED <<rdv_sent, rdv_forward, rdv_log>>
    /\ UNCHANGED <<registered_havens, rdv_evicted>>

\* Immortal::respawn starts the loop again: a new, empty cache and a new socket
\* bound on HAVEN_FORWARD_DOCK in place of the old one
respawn_rendezvous_forward ==
    /\ rdv_forward = "failed"
    /\ rdv_forward' = "running"
    /\ seen_srcs' = {}
    /\ rdv_inbox' = <<>>
    /\ UNCHANGED <<rdv_taken, registered_havens, rdv_sent, rdv_log, rdv_evicted>>

\* the peel-forward engine delivers a message for HAVEN_FORWARD_DOCK
rdv_arrive(msg, src_endpoint) ==
    /\ Len(rdv_taken) + Len(rdv_inbox) < MaxReqs
    /\ Len(rdv_inbox) < MaxRdvBacklog
    /\ rdv_inbox' = Append(rdv_inbox, [msg |-> msg, src |-> src_endpoint])
    /\ UNCHANGED <<rdv_taken, registered_havens, seen_srcs, rdv_sent, rdv_forward,
                   rdv_log, rdv_evicted>>

\* a haven registers with this relay
register_haven(fp) ==
    /\ fp \notin registered_havens
    /\ registered_havens' = registered_havens \cup {fp}
    /\ UNCHANGED <<rdv_inbox, rdv_taken, seen_srcs, rdv_sent, rdv_forward, rdv_log,
                   rdv_evicted>>

\* a haven's registration expires
expire_haven(fp) ==
    /\ fp \in registered_havens
    /\ registered_havens' = registered_havens \ {fp}
    /\ UNCHANGED <<rdv_inbox, rdv_taken, seen_srcs, rdv_sent, rdv_forward, rdv_log,
                   rdv_evicted>>

\* the cache evicts a pair (capacity 100_000, one hour idle)
evict_seen_src(pair) ==
    /\ pair \in seen_srcs
    /\ seen_srcs' = seen_srcs \ {pair}
    /\ rdv_evicted' = rdv_evicted \cup {[pair |-> pair, after |-> Len(rdv_taken)]}
    /\ UNCHANGED <<rdv_inbox, rdv_taken, registered_havens, rdv_sent, rdv_forward,
                   rdv_log>>

(***************************************************************************)
(* Gossip (daemon/gossip.rs): two neighbouring nodes, each running         *)
(* gossip_loop with the other; what the neighbour answers to an RPC is any *)
(* answer the link protocol can carry.                                     *)
(***************************************************************************)
MaxRounds == 2      \* gossip rounds a node starts in a behaviour

Nodes == {1, 2}             \* the fingerprints of the two neighbours
Fps == {1, 2, 3}            \* and of a third relay the graph hears about
neighbor_of(n) == IF n = 1 THEN 2 ELSE 1

\* an IdentityDescriptor: its fingerprint, and whether its signature verifies
IdentityDescriptor(fp, valid) == [fp |-> fp, valid |-> valid]
\* an AdjacencyDescriptor: its endpoints, and whether both signatures verify
AdjacencyDescriptor(left, right, valid) ==
    [left |-> left, right |-> right, valid |-> valid]
AdjacencyDescriptors ==
    {AdjacencyDescriptor(l, r, v) : l \in Fps, r \in Fps, v \in BOOLEAN}

\* the answers to link_client.identity(fp): an RPC error, None, or Some
\* descriptor of fp, whose signature verifies or not
IdentityAnswers(fp) ==
    {[kind |-> k, desc |-> IdentityDescriptor(fp, FALSE)] : k \in {"err", "none"}}
    \cup {[kind |-> "some", desc |-> IdentityDescriptor(fp, v)] : v \in BOOLEAN}
\* the answers to link_client.sign_adjacency(left_incomplete)
SignAnswers ==
    {[kind |-> k, desc |-> AdjacencyDescriptor(1, 1, FALSE)] : k \in {"err", "none"}}
    \cup {[kind |-> "some", desc |-> d] : d \in AdjacencyDescriptors}

VARIABLES
    relay_graph,    \* node -> RELAY_GRAPH: the identities and adjacencies held
    gossip_pc,      \* node -> where its gossip_loop stands
    gossip_round,   \* node -> the rounds its gossip_loop has started
    sign_log,       \* node -> the descriptors it built and sent for signing
    tampered,       \* node -> whether the descriptor step 3 handled last in
                    \* this round had a signature that does not verify
    adjacencies,    \* node -> the answer to this round's adjacencies RPC:
                    \* whether it has come, and what of it is not yet handled
    round_graph     \* node -> its relay graph when its latest round began

gossip_vars ==
    <<relay_graph, gossip_pc, gossip_round, sign_log, tampered, adjacencies,
      round_graph>>

NotAsked == [asked |-> FALSE, rest |-> {}]

GossipInit ==
    /\ relay_graph = [n \in Nodes |-> [identities |-> {}, adjacencies |-> {}]]
    /\ gossip_pc = [n \in Nodes |-> "start"]
    /\ gossip_round = [n \in Nodes |-> 0]
    /\ sign_log = [n \in Nodes |-> <<>>]
    /\ tampered = [n \in Nodes |-> FALSE]
    /\ adjacencies = [n \in Nodes |-> NotAsked]
    /\ round_graph = relay_graph

\* RelayGraph::insert_identity: fails if the signature is invalid
insert_identity(graph, desc) ==
    IF ~desc.valid
        THEN [ok |-> FALSE, graph |-> graph]
        ELSE [ok |-> TRUE,
              graph |-> [graph EXCEPT !.identities = @ \cup {desc.fp}]]

\* insert_adjacency taking whatever it is given
insert_adjacency_unchecked(graph, desc) ==
    [ok |-> TRUE,
     graph |-> [graph EXCEPT !.adjacencies =
                    @ \cup {[left |-> desc.left, right |-> desc.right]}]]

\* RelayGraph::insert_adjacency: fails if left >= right, a signature is
\* invalid, or an endpoint's identity is unknown
insert_adjacency(graph, desc) ==
    IF \/ desc.left >= desc.right
       \/ ~desc.valid
       \/ desc.left \notin graph.identities
       \/ desc.right \notin graph.identities
        THEN [ok |-> FALSE, graph |-> graph]
        ELSE [ok |-> TRUE,
              graph |-> [graph EXCEPT !.adjacencies =
                            @ \cup {[left |-> desc.left, right |-> desc.right]}]]

\* the test with both orders signing
is_left_any(own_fp, remote_fingerprint) == own_fp # remote_fingerprint

\* the test in sign_adjacency: the local node is "left" of the neighbour
is_left(own_fp, remote_fingerprint) == own_fp < remote_fingerprint

\* the top of gossip_loop's loop: the node inserts its own identity and
\* starts gossip_once
gossip_loop(n) ==
    /\ gossip_pc[n] = "start"
    /\ gossip_round[n] < MaxRounds
    /\ gossip_round' = [gossip_round EXCEPT ![n] = @ + 1]
    /\ relay_graph' = [relay_graph EXCEPT
                        ![n] = insert_identity(@, IdentityDescriptor(n, TRUE)).graph]
    /\ gossip_pc' = [gossip_pc EXCEPT ![n] = "fetch_identity"]
    /\ UNCHANGED sign_log

\* step 1 of gossip_once, on the neighbour's answer to identity(remote)
fetch_identity(n, their_id) ==
    /\ gossip_pc[n] = "fetch_identity"
    /\ IF their_id.kind # "some"
        THEN /\ gossip_pc' = [gossip_pc EXCEPT ![n] = "sleep"]
             /\ UNCHANGED relay_graph
        ELSE LET r == insert_identity(relay_graph[n], their_id.desc)
             IN  /\ relay_graph' = [relay_graph EXCEPT ![n] = r.graph]
                 /\ gossip_pc' = [gossip_pc EXCEPT
                                    ![n] = IF r.ok THEN "sign_adjacency" ELSE "sleep"]
    /\ UNCHANGED <<gossip_round, sign_log>>

\* sign_adjacency keeping the countersigned descriptor out of the graph
sign_adjacency_uninserted(n, complete) ==
    /\ gossip_pc[n] = "sign_adjacency"
    /\ LET remote_fingerprint == neighbor_of(n)
       IN  IF is_left(n, remote_fingerprint)
            THEN LET left_incomplete ==
                        [left |-> n, right |-> remote_fingerprint,
                         round |-> gossip_round[n]]
                 IN  /\ sign_log' = [sign_log EXCEPT ![n] = Append(@, left_incomplete)]
                     /\ gossip_pc' = [gossip_pc EXCEPT ![n] =
                            IF complete.kind # "some" THEN "sleep" ELSE "gossip_graph"]
                     /\ UNCHANGED relay_graph
            ELSE /\ complete.kind = "none"
                 /\ gossip_pc' = [gossip_pc EXCEPT ![n] = "gossip_graph"]
                 /\ UNCHANGED <<relay_graph, sign_log>>
    /\ UNCHANGED gossip_round

\* step 2 of gossip_once, on the neighbour's answer to sign_adjacency
sign_adjacency(n, complete) ==
    /\ gossip_pc[n] = "sign_adjacency"
    /\ LET remote_fingerprint == neighbor_of(n)
       IN  IF is_left(n, remote_fingerprint)
            THEN LET left_incomplete ==
                        [left |-> n, right |-> remote_fingerprint,
                         round |-> gossip_round[n]]
                     r == insert_adjacency(relay_graph[n], complete.desc)
                 IN  /\ sign_log' = [sign_log EXCEPT ![n] = Append(@, left_incomplete)]
                     /\ IF complete.kind # "some"
                            THEN /\ gossip_pc' = [gossip_pc EXCEPT ![n] = "sleep"]
                                 /\ UNCHANGED relay_graph
                            ELSE /\ relay_graph' = [relay_graph EXCEPT ![n] = r.graph]
                                 /\ gossip_pc' = [gossip_pc EXCEPT ![n] =
                                        IF r.ok THEN "gossip_graph" ELSE "sleep"]
            ELSE /\ complete.kind = "none"
                 /\ gossip_pc' = [gossip_pc EXCEPT ![n] = "gossip_graph"]
                 /\ UNCHANGED <<relay_graph, sign_log>>
    /\ UNCHANGED gossip_round

\* the turn inserting the adjacency without fetching its endpoints' identities
gossip_graph_unfetched(n, adjacency, left_id, right_id) ==
    /\ gossip_pc[n] = "gossip_graph"
    /\ LET a == insert_adjacency(relay_graph[n], adjacency)
       IN  /\ relay_graph' = [relay_graph EXCEPT ![n] = a.graph]
           /\ gossip_pc' = [gossip_pc EXCEPT
                                ![n] = IF a.ok THEN "gossip_graph" ELSE "sleep"]
    /\ UNCHANGED <<gossip_round, sign_log>>

\* the turn going on to the next adjacency when insert_adjacency fails
gossip_graph_ignoring(n, adjacency, left_id, right_id) ==
    /\ gossip_pc[n] = "gossip_graph"
    /\ LET g0 == relay_graph[n]
           l  == IF left_id.kind = "some" THEN insert_identity(g0, left_id.desc)
                                          ELSE [ok |-> TRUE, graph |-> g0]
           r  == IF right_id.kind = "some" THEN insert_identity(l.graph, right_id.desc)
                                           ELSE [ok |-> TRUE, graph |-> l.graph]
           a  == insert_adjacency(r.graph, adjacency)
       IN  IF left_id.kind = "err" \/ ~l.ok
                THEN /\ right_id.kind = "none"
                     /\ relay_graph' = [relay_graph EXCEPT ![n] = g0]
                     /\ gossip_pc' = [gossip_pc EXCEPT ![n] = "sleep"]
           ELSE IF right_id.kind = "err" \/ ~r.ok
                THEN /\ relay_graph' = [relay_graph EXCEPT ![n] = l.graph]
                     /\ gossip_pc' = [gossip_pc EXCEPT ![n] = "sleep"]
           ELSE /\ relay_graph' = [relay_graph EXCEPT ![n] = a.graph]
                /\ UNCHANGED gossip_pc
    /\ UNCHANGED <<gossip_round, sign_log>>

\* step 3 of gossip_once, one turn of its loop: the next adjacency of the
\* neighbour's answer, and the neighbour's answers to identity(left) and
\* identity(right)
gossip_graph(n, adjacency, left_id, right_id) ==
    /\ gossip_pc[n] = "gossip_graph"
    /\ LET g0 == relay_graph[n]
           l  == IF left_id.kind = "some" THEN insert_identity(g0, left_id.desc)
                                          ELSE [ok |-> TRUE, graph |-> g0]
           r  == IF right_id.kind = "some" THEN insert_identity(l.graph, right_id.desc)
                                           ELSE [ok |-> TRUE, graph |-> l.graph]
           a  == insert_adjacency(r.graph, adjacency)
       IN  IF left_id.kind = "err" \/ ~l.ok
                THEN /\ right_id.kind = "none"
                     /\ relay_graph' = [relay_graph EXCEPT ![n] = g0]
                     /\ gossip_pc' = [gossip_pc EXCEPT ![n] = "sleep"]
           ELSE IF right_id.kind = "err" \/ ~r.ok
                THEN /\ relay_graph' = [relay_graph EXCEPT ![n] = l.graph]
                     /\ gossip_pc' = [gossip_pc EXCEPT ![n] = "sleep"]
           ELSE /\ relay_graph' = [relay_graph EXCEPT ![n] = a.graph]
                /\ gossip_pc' = [gossip_pc EXCEPT
                                    ![n] = IF a.ok THEN "gossip_graph" ELSE "sleep"]
    /\ UNCHANGED <<gossip_round, sign_log>>

\* gossip_graph returns: the adjacencies RPC failed, or its answer is used up
gossip_graph_return(n) ==
    /\ gossip_pc[n] = "gossip_graph"
    /\ gossip_pc' = [gossip_pc EXCEPT ![n] = "sleep"]
    /\ UNCHANGED <<relay_graph, gossip_round, sign_log>>

\* the timeout returning from gossip_loop
gossip_timeout_returning(n) ==
    /\ gossip_pc[n] \in {"fetch_identity", "sign_adjacency", "gossip_graph"}
    /\ gossip_pc' = [gossip_pc EXCEPT ![n] = "returned"]
    /\ UNCHANGED <<relay_graph, gossip_round, sign_log>>

\* once.timeout(5 s): the round is cancelled where it waits for an answer
gossip_timeout(n) ==
    /\ gossip_pc[n] \in {"fetch_identity", "sign_adjacency", "gossip_graph"}
    /\ gossip_pc' = [gossip_pc EXCEPT ![n] = "sleep"]
    /\ UNCHANGED <<relay_graph, gossip_round, sign_log>>

\* sleep_timer fires: the next turn of gossip_loop's loop
gossip_tick(n) ==
    /\ gossip_pc[n] = "sleep"
    /\ gossip_pc' = [gossip_pc EXCEPT ![n] = "start"]
    /\ UNCHANGED <<relay_graph, gossip_round, sign_log>>

(***************************************************************************)
(* Gossip between two honest neighbours over a working link: the answers   *)
(* to a node's RPCs come from the neighbour's relay graph, every RPC is    *)
(* answered before the round's timeout, and the two loops, started when    *)
(* the link came up, tick together.                                        *)
(***************************************************************************)
\* RelayGraph::all_nodes: the fingerprints the graph has an identity for
all_nodes(graph) == graph.identities

\* the neighbour m answering identity(fp): its own descriptor, or the one its
\* graph holds
identity_rpc(m, fp) ==
    IF fp = m \/ fp \in relay_graph[m].identities
        THEN [kind |-> "some", desc |-> IdentityDescriptor(fp, TRUE)]
        ELSE [kind |-> "none", desc |-> IdentityDescriptor(fp, FALSE)]

\* the neighbour m answering sign_adjacency(left_incomplete): it signs as the
\* right-hand side a descriptor that names it on the right of a smaller left
sign_adjacency_rpc(m, left_incomplete) ==
    IF left_incomplete.right = m /\ left_incomplete.left < left_incomplete.right
        THEN [kind |-> "some",
              desc |-> AdjacencyDescriptor(left_incomplete.left,
                                           left_incomplete.right, TRUE)]
        ELSE [kind |-> "none", desc |-> AdjacencyDescriptor(1, 1, FALSE)]

\* the neighbour m answering adjacencies(random_sample): the adjacencies its
\* graph holds with an endpoint in the sample
adjacencies_rpc(m, random_sample) ==
    {AdjacencyDescriptor(a.left, a.right, TRUE) :
        a \in {x \in relay_graph[m].adjacencies :
                x.left \in random_sample \/ x.right \in random_sample}}

\* all_known_nodes.choose_multiple(rng, 10.min(len)): the samples it can draw
SampleSize == 10
random_samples(all_known_nodes) ==
    IF Cardinality(all_known_nodes) <= SampleSize
        THEN {all_known_nodes}
        ELSE {x \in SUBSET all_known_nodes : Cardinality(x) = SampleSize}

\* step 3 of gossip_once up to its loop: the sample is drawn and the
\* neighbour's answer to adjacencies(random_sample) has come
gossip_graph_ask(n, answer) ==
    /\ gossip_pc[n] = "gossip_graph"
    /\ ~adjacencies[n].asked
    /\ adjacencies' = [adjacencies EXCEPT ![n] = [asked |-> TRUE, rest |-> answer]]
    /\ UNCHANGED <<relay_graph, gossip_pc, gossip_round, sign_log>>

\* both sleep timers fire
sleep_timers ==
    /\ \A n \in Nodes : gossip_pc[n] = "sleep"
    /\ gossip_pc' = [n \in Nodes |-> "start"]
    /\ UNCHANGED <<relay_graph, gossip_round, sign_log>>

\* what a node holds before it first gossips with this neighbour: a graph,
\* learnt from other neighbours, of itself and the third relay
InitialGraphs(n) ==
    {g \in [identities : SUBSET {n, 3}, adjacencies : SUBSET {[left |-> n, right |-> 3]}] :
        \A a \in g.adjacencies : {a.left, a.right} \subseteq g.identities}

HonestGossipInit ==
    /\ relay_graph \in [Nodes -> UNION {InitialGraphs(n) : n \in Nodes}]
    /\ \A n \in Nodes : relay_graph[n] \in InitialGraphs(n)
    /\ gossip_pc = [n \in Nodes |-> "start"]
    /\ gossip_round = [n \in Nodes |-> 0]
    /\ sign_log = [n \in Nodes |-> <<>>]
    /\ tampered = [n \in Nodes |-> FALSE]
    /\ adjacencies = [n \in Nodes |-> NotAsked]
    /\ round_graph = relay_graph

(***************************************************************************)
(* route_to_instructs: the forward instructions of a route.                *)
(***************************************************************************)
MaxRoute == 3

\* the onion public key in the identity descriptor of a fingerprint
onion_pk(fp) == [onion_pk_of |-> fp]

\* RelayGraph::identity: the descriptor the graph holds for a fingerprint
identity(graph, fp) ==
    IF fp \in graph.identities
        THEN [kind |-> "some", onion_pk |-> onion_pk(fp)]
        ELSE [kind |-> "none", onion_pk |-> onion_pk(fp)]

ForwardInstruction(this_pubkey, next_fingerprint) ==
    [this_pubkey |-> this_pubkey, next_fingerprint |-> next_fingerprint]

\* collect() over route.windows(2), window i on: the list of the instructions,
\* or the error of the first window that has one
RECURSIVE collect_windows(_, _, _, _)
collect_windows(route, graph, i, acc) ==
    IF i + 1 > Len(route)
        THEN [kind |-> "Ok", instructs |-> acc]
        ELSE LET this == route[i]
                 next == route[i + 1]
                 id   == identity(graph, this)
             IN  IF id.kind = "none"
                    THEN [kind |-> "NoOnionPublic", fp |-> this]
                    ELSE collect_windows(route, graph, i + 1,
                            Append(acc, ForwardInstruction(id.onion_pk, next)))

\* the instructions collected last window first
route_to_instructs_reversed(route, graph) ==
    LET r == collect_windows(route, graph, 1, <<>>)
    IN  IF r.kind = "Ok"
            THEN [kind |-> "Ok",
                  instructs |-> [i \in 1..Len(r.instructs) |->
                                    r.instructs[Len(r.instructs) + 1 - i]]]
            ELSE r

route_to_instructs(route, graph) == collect_windows(route, graph, 1, <<>>)

Routes == UNION {[1..k -> Fps] : k \in 0..MaxRoute}

VARIABLES
    route,          \* the route handed to route_to_instructs
    route_graph,    \* the relay graph it reads
    instructs       \* what it returned

route_vars == <<route, route_graph, instructs>>

RouteInit ==
    /\ route = <<>>
    /\ route_graph = [identities |-> {}, adjacencies |-> {}]
    /\ instructs = route_to_instructs(route, route_graph)

call_route_to_instructs(r, ids) ==
    /\ route' = r
    /\ route_graph' = [identities |-> ids, adjacencies |-> {}]
    /\ instructs' = route_to_instructs(r, route_graph')

(***************************************************************************)
(* A chain of three nodes A - B - C, each running the peel-forward engine, *)
(* and a message sent from a socket of A to a socket of C.                 *)
(* A raw packet is the list of its forward layers, each sealed to the      *)
(* onion key of the node that is to peel it, around the inner packet       *)
(* sealed to the destination's onion key.                                  *)
(***************************************************************************)
MaxSends == 2

NodeA == 1
NodeB == 2
NodeC == 3
ChainNodes == {NodeA, NodeB, NodeC}
DockS == "dockS"
Bodies == {"x", "y"}
SocketA == Endpoint(NodeA, DockS)
SocketC == Endpoint(NodeC, DockA)

Adjacency(a, b) == [left |-> a, right |-> b]
ChainGraph ==
    [identities |-> ChainNodes,
     adjacencies |-> {Adjacency(NodeA, NodeB), Adjacency(NodeB, NodeC)}]
\* the relay graphs A may hold: the chain, or the chain less B's identity,
\* or less the adjacency B-C
ChainGraphs ==
    { ChainGraph,
      [ChainGraph EXCEPT !.identities = @ \ {NodeB}],
      [ChainGraph EXCEPT !.adjacencies = @ \ {Adjacency(NodeB, NodeC)}] }

\* RelayGraph::find_shortest_path: a shortest path along adjacencies, the
\* first in the order of its fingerprints among the shortest
Paths(graph, src, dst) ==
    {p \in UNION {[1..k -> ChainNodes] : k \in 1..Cardinality(ChainNodes)} :
        /\ p[1] = src
        /\ p[Len(p)] = dst
        /\ \A i, j \in 1..Len(p) : i # j => p[i] # p[j]
        /\ \A i \in 1..(Len(p) - 1) :
                \/ Adjacency(p[i], p[i + 1]) \in graph.adjacencies
                \/ Adjacency(p[i + 1], p[i]) \in graph.adjacencies}
lex_before(p, q) ==
    \/ p = q
    \/ \E i \in 1..Len(p) :
            /\ \A j \in 1..(i - 1) : p[j] = q[j]
            /\ p[i] < q[i]
find_shortest_path(graph, src, dst) ==
    LET shortest == {p \in Paths(graph, src, dst) :
                        \A q \in Paths(graph, src, dst) : Len(p) <= Len(q)}
    IN  IF shortest = {}
            THEN [kind |-> "none", route |-> <<>>]
            ELSE [kind |-> "some",
                  route |-> CHOOSE p \in shortest :
                                \A q \in shortest : lex_before(p, q)]

\* the raw packet over an instruction list, around the sealed inner packet
RawPacket(instructs_list, dest_pk, inner, my_fp) ==
    [layers |-> instructs_list,
     sealed |-> [key |-> dest_pk, from |-> my_fp, inner |-> inner]]

\* RawPacket::peel with the onion key of node n
peel_layer(pkt, n) ==
    IF pkt.layers # <<>>
        THEN IF Head(pkt.layers).this_pubkey = onion_pk(n)
                THEN [kind |-> "Forward", to |-> Head(pkt.layers).next_fingerprint,
                      pkt |-> [pkt EXCEPT !.layers = Tail(@)]]
                ELSE [kind |-> "Err", to |-> 0, pkt |-> pkt]
        ELSE IF pkt.sealed.key = onion_pk(n)
                THEN [kind |-> "Received", to |-> 0, pkt |-> pkt]
                ELSE [kind |-> "Err", to |-> 0, pkt |-> pkt]

\* DaemonContext::send_message: route, instructions, sealed message, raw packet
ctx_send_message(graph, my_fp, source_dock, destination, dest_dock, content) ==
    LET found == find_shortest_path(graph, my_fp, destination)
        r     == route_to_instructs(found.route, graph)
        their == identity(graph, destination)
    IN  IF found.kind = "none"
            THEN [kind |-> "NoRoute", pkt |-> RawPacket(<<>>, 0, 0, 0)]
        ELSE IF r.kind # "Ok" \/ their.kind = "none"
            THEN [kind |-> "NoOnionPublic", pkt |-> RawPacket(<<>>, 0, 0, 0)]
        ELSE [kind |-> "Ok",
              pkt |-> RawPacket(r.instructs, their.onion_pk,
                                Message(source_dock, dest_dock, content), my_fp)]

VARIABLES
    chain_links,    \* the pairs of nodes with a live link session
    chain_graph,    \* the relay graph of A
    chain_bound,    \* the endpoints with a socket bound, at their node
    chain_queues,   \* node -> the raw packets in its table's queue
    chain_out,      \* node -> what it gave to send_raw_packet, in order
    chain_recv,     \* endpoint -> the (Message, Fingerprint) pairs queued
    chain_sent,     \* the bodies send_to returned Ok for, in order
    chain_calls     \* calls of send_to so far

chain_vars == <<chain_links, chain_graph, chain_bound, chain_queues, chain_out,
                chain_recv, chain_sent, chain_calls>>

ChainInit ==
    /\ chain_links = {{NodeA, NodeB}, {NodeB, NodeC}}
    /\ chain_graph = ChainGraph
    /\ chain_bound = {SocketA, SocketC}
    /\ chain_queues = [n \in ChainNodes |-> <<>>]
    /\ chain_out = [n \in ChainNodes |-> <<>>]
    /\ chain_recv = [e \in {SocketA, SocketC} |-> <<>>]
    /\ chain_sent = <<>>
    /\ chain_calls = 0

\* the chain with any of its links down, A's graph short of a piece, or no
\* socket bound at C
ChainAnyInit ==
    /\ chain_links \in SUBSET {{NodeA, NodeB}, {NodeB, NodeC}}
    /\ chain_graph \in ChainGraphs
    /\ chain_bound \in {{SocketA}, {SocketA, SocketC}}
    /\ chain_queues = [n \in ChainNodes |-> <<>>]
    /\ chain_out = [n \in ChainNodes |-> <<>>]
    /\ chain_recv = [e \in {SocketA, SocketC} |-> <<>>]
    /\ chain_sent = <<>>
    /\ chain_calls = 0

\* send_to giving the two docks in each other's place
socket_send_to_swapped(body, endpoint) ==
    /\ chain_calls < MaxSends
    /\ chain_calls' = chain_calls + 1
    /\ LET r == ctx_send_message(chain_graph, SocketA.fingerprint, endpoint.dock,
                                 endpoint.fingerprint, SocketA.dock, body)
       IN  IF r.kind = "Ok"
            THEN /\ chain_queues' = [chain_queues EXCEPT
                                        ![SocketA.fingerprint] = Append(@, r.pkt)]
                 /\ chain_sent' = Append(chain_sent, body)
            ELSE UNCHANGED <<chain_queues, chain_sent>>
    /\ UNCHANGED <<chain_links, chain_graph, chain_bound, chain_out, chain_recv>>

\* Socket::send_to on A's socket, to the endpoint (C, d)
socket_send_to(body, endpoint) ==
    /\ chain_calls < MaxSends
    /\ chain_calls' = chain_calls + 1
    /\ LET r == ctx_send_message(chain_graph, SocketA.fingerprint, SocketA.dock,
                                 endpoint.fingerprint, endpoint.dock, body)
       IN  IF r.kind = "Ok"
            THEN /\ chain_queues' = [chain_queues EXCEPT
                                        ![SocketA.fingerprint] = Append(@, r.pkt)]
                 /\ chain_sent' = Append(chain_sent, body)
            ELSE UNCHANGED <<chain_queues, chain_sent>>
    /\ UNCHANGED <<chain_links, chain_graph, chain_bound, chain_out, chain_recv>>

\* one turn of node n's peel_forward_loop; a turn that returns an error has
\* dropped the packet, and the loop is respawned at once
chain_peel_forward_loop(n) ==
    /\ chain_queues[n] # <<>>
    /\ LET pkt    == Head(chain_queues[n])
           peeled == peel_layer(pkt, n)
           queues == [chain_queues EXCEPT ![n] = Tail(@)]
           dest   == Endpoint(n, pkt.sealed.inner.dest_dock)
       IN  IF peeled.kind = "Forward" /\ {n, peeled.to} \in chain_links
                THEN /\ chain_queues' = [queues EXCEPT ![peeled.to] = Append(@, peeled.pkt)]
                     /\ chain_out' = [chain_out EXCEPT
                                        ![n] = Append(@, [to |-> peeled.to, pkt |-> peeled.pkt])]
                     /\ UNCHANGED chain_recv
           ELSE IF peeled.kind = "Received" /\ dest \in chain_bound
                THEN /\ chain_queues' = queues
                     /\ chain_recv' = [chain_recv EXCEPT
                            ![dest] = Append(@, <<pkt.sealed.inner, pkt.sealed.from>>)]
                     /\ UNCHANGED chain_out
           ELSE /\ chain_queues' = queues
                /\ UNCHANGED <<chain_out, chain_recv>>
    /\ UNCHANGED <<chain_links, chain_graph, chain_bound, chain_sent, chain_calls>>

(***************************************************************************)
(* Haven connections (src/src/haven.rs): the client's connect, the         *)
(* listener of the haven, and send / recv on a connection.                 *)
(***************************************************************************)
MaxHavenCalls == 2

\* haven identity keys: the haven's own and another one
HavenPk == "pkH"
OtherPk == "pkX"
IdentityPks == {HavenPk, OtherPk}
fingerprint(id_pk) == IF id_pk = HavenPk THEN HavenEp.fingerprint ELSE OtherEp.fingerprint

\* the ephemeral onion keys of the client and of the server
ClientEph == "ephC"
ServerEph == "ephS"

LABEL_HAVEN_UP == "haven-up"
LABEL_HAVEN_DN == "haven-dn"

\* a signature: who made it, over what
Sig(signer, over) == [signer |-> signer, over |-> over]
ServerHandshake(id_pk, eph_pk, sig) == [id_pk |-> id_pk, eph_pk |-> eph_pk, sig |-> sig]
\* ServerHandshake::to_sign: id_pk || eph_pk
to_sign(hs) == <<hs.id_pk, hs.eph_pk>>
\* HavenIdentityPublic::verify
verify(id_pk, msg, sig) == sig.signer = id_pk /\ sig.over = msg

ServerHandshakes ==
    {ServerHandshake(id_pk, ServerEph, Sig(signer, <<over, ServerEph>>)) :
        id_pk \in IdentityPks, signer \in IdentityPks, over \in IdentityPks}

\* what n2r_skt.recv and the deserialization give connect
Answers ==
    {[kind |-> k, hs |-> ServerHandshake(HavenPk, ServerEph, Sig(HavenPk, <<>>))] :
        k \in {"recv-err", "garbage"}}
    \cup {[kind |-> "hs", hs |-> hs] : hs \in ServerHandshakes}

\* what dht_get with its 30 s timeout gives connect
DhtResults == {"timeout", "failed", "none", "some"}

\* OnionSecret::shared_secret: the same for both ends of the exchange
shared_secret(my_osk, their_pk) == {my_osk, their_pk}
\* AeadKey::from_bytes(blake3::keyed_hash(blake3::hash(label), shared_sec))
AeadKey(label, shared_sec) == [label |-> label, shared_sec |-> shared_sec]
NoKey == AeadKey("", {})

Connection(enc_key, dec_key) ==
    [kind |-> "Ok", enc_key |-> enc_key, dec_key |-> dec_key, error |-> ""]
ConnectError(error) ==
    [kind |-> "Err", enc_key |-> NoKey, dec_key |-> NoKey, error |-> error]
NotConnected == [kind |-> "None", enc_key |-> NoKey, dec_key |-> NoKey, error |-> ""]

\* connect going on after the signature check without comparing fingerprints
connect_any_fingerprint(haven, dht, sent, answer) ==
    IF dht # "some" THEN ConnectError(dht)
    ELSE IF ~sent THEN ConnectError("send")
    ELSE IF answer.kind # "hs" THEN ConnectError(answer.kind)
    ELSE IF ~verify(answer.hs.id_pk, to_sign(answer.hs), answer.hs.sig)
        THEN ConnectError("signature")
    ELSE Connection(AeadKey(LABEL_HAVEN_UP, shared_secret(ClientEph, answer.hs.eph_pk)),
                    AeadKey(LABEL_HAVEN_DN, shared_secret(ClientEph, answer.hs.eph_pk)))

\* HavenConnection::connect
connect(haven, dht, sent, answer) ==
    IF dht # "some" THEN ConnectError(dht)
    ELSE IF ~sent THEN ConnectError("send")
    ELSE IF answer.kind # "hs" THEN ConnectError(answer.kind)
    ELSE IF ~verify(answer.hs.id_pk, to_sign(answer.hs), answer.hs.sig)
        THEN ConnectError("signature")
    ELSE IF fingerprint(answer.hs.id_pk) # haven.fingerprint
        THEN ConnectError("spoofed")
    ELSE LET shared_sec == shared_secret(ClientEph, answer.hs.eph_pk)
             up_key     == AeadKey(LABEL_HAVEN_UP, shared_sec)
             down_key   == AeadKey(LABEL_HAVEN_DN, shared_sec)
         IN  Connection(up_key, down_key)

VARIABLES
    haven_asked,    \* the haven endpoint connect was last called with
    haven_dht,      \* what dht_get gave that call
    haven_answer,   \* what came back for the ClientHandshake
    haven_conn,     \* what connect returned
    haven_listener, \* the haven's HavenListener::bind: "none" / "panicked"
    haven_accepted, \* the HavenConnections the listener's accept has returned
    haven_frames,   \* the Regular frames sent on the connection, in order
    haven_calls     \* the calls of send and recv on the connection, and how
                    \* each ended

haven_vars == <<haven_asked, haven_dht, haven_answer, haven_conn, haven_listener,
                haven_accepted, haven_frames, haven_calls>>

HavenInit ==
    /\ haven_asked = HavenEp
    /\ haven_dht = "none"
    /\ haven_answer = [kind |-> "recv-err",
                       hs |-> ServerHandshake(HavenPk, ServerEph, Sig(HavenPk, <<>>))]
    /\ haven_conn = NotConnected
    /\ haven_listener = "none"
    /\ haven_accepted = {}
    /\ haven_frames = <<>>
    /\ haven_calls = <<>>

\* a call of connect; send and recv are then called on what it returned
call_connect(haven, dht, sent, answer) ==
    /\ haven_asked' = haven
    /\ haven_dht' = dht
    /\ haven_answer' = IF dht = "some" /\ sent THEN answer ELSE haven_answer
    /\ haven_conn' = connect(haven, dht, sent, answer)
    /\ haven_frames' = <<>>
    /\ haven_calls' = <<>>
    /\ UNCHANGED <<haven_listener, haven_accepted>>

\* HavenListener::bind: spawns the register task and reaches todo!()
HavenListener_bind ==
    /\ haven_listener = "none"
    /\ haven_listener' = "panicked"
    /\ UNCHANGED <<haven_asked, haven_dht, haven_answer, haven_conn,
                   haven_accepted, haven_frames, haven_calls>>

\* HavenConnection::send: todo!()
HavenConnection_send(bts) ==
    /\ haven_conn.kind = "Ok"
    /\ Len(haven_calls) < MaxHavenCalls
    /\ haven_calls' = Append(haven_calls, [op |-> "send", ended |-> "panicked"])
    /\ UNCHANGED <<haven_asked, haven_dht, haven_answer, haven_conn,
                   haven_listener, haven_accepted, haven_frames>>

\* HavenConnection::recv: todo!()
HavenConnection_recv ==
    /\ haven_conn.kind = "Ok"
    /\ Len(haven_calls) < MaxHavenCalls
    /\ haven_calls' = Append(haven_calls, [op |-> "recv", ended |-> "panicked"])
    /\ UNCHANGED <<haven_asked, haven_dht, haven_answer, haven_conn,
                   haven_listener, haven_accepted, haven_frames>>

(***************************************************************************)
(* main_daemon (src/src/daemon.rs): the supervised loops, the in-route and *)
(* out-route tasks, and the stage that joins the route tasks.              *)
(***************************************************************************)
\* the loops started with Immortal::respawn(RespawnStrategy::Immediate, ..),
\* by the label log_error gets
SupervisedLoops ==
    {"peel_forward", "gossip", "control_protocol", "global_rpc_loop",
     "haven_forward_loop", "udp_haven_forward_loop", "udp_forward_loop"}
\* the loops whose body has a path that returns Err; global_rpc_loop has none
FallibleLoops == SupervisedLoops \ {"global_rpc_loop"}

\* every task main_daemon holds a handle of: the supervised loops and the
\* table's garbage collector, started with Immortal::spawn, which never returns
DaemonLoops == SupervisedLoops \cup {"table_gc"}

\* the tasks pushed to route_tasks: one per in_routes and out_routes block
RouteTasks == {"in_route", "out_route"}
error_of(task) == IF task = "in_route" THEN "in_route error" ELSE "out_route error"

VARIABLES
    loops,          \* supervised loop -> "running" / "failed" / "cancelled"
    route_tasks,    \* the route tasks spawned -> "running" / "ok" / "err"
    completed,      \* the route tasks that have terminated, in that order
    joined,         \* how many of them route_tasks.next() has yielded
    daemon,         \* main_daemon: whether it has returned, and what
    last_warning    \* the label of log_error's latest "restart" warning

daemon_vars == <<loops, route_tasks, completed, joined, daemon, last_warning>>

Running == [state |-> "running", result |-> ""]
Returned(result) == [state |-> "returned", result |-> result]

DaemonInit ==
    /\ loops = [l \in DaemonLoops |-> "running"]
    /\ route_tasks = [t \in RouteTasks |-> "running"]
    /\ completed = <<>>
    /\ joined = 0
    /\ daemon = Running
    /\ last_warning = "none"

\* a configuration with any of the in_routes and out_routes blocks
DaemonAnyInit ==
    /\ loops = [l \in DaemonLoops |-> "running"]
    /\ \E configured \in SUBSET RouteTasks :
            route_tasks = [t \in configured |-> "running"]
    /\ completed = <<>>
    /\ joined = 0
    /\ daemon = Running
    /\ last_warning = "none"

\* the error of a loop ending main_daemon
loop_returns_error_fatal(l) ==
    /\ daemon.state = "running"
    /\ loops[l] = "running"
    /\ loops' = [x \in DaemonLoops |-> "cancelled"]
    /\ daemon' = Returned(l)
    /\ last_warning' = l
    /\ UNCHANGED <<route_tasks, completed, joined>>

\* the body of a supervised loop returns Err: map_err(log_error(label)) logs it
loop_returns_error(l) ==
    /\ daemon.state = "running"
    /\ loops[l] = "running"
    /\ loops' = [loops EXCEPT ![l] = "failed"]
    /\ last_warning' = l
    /\ UNCHANGED <<route_tasks, completed, joined, daemon>>

\* only the first loop started being respawned
respawn_first_only(l) ==
    /\ daemon.state = "running"
    /\ loops[l] = "failed"
    /\ l = "peel_forward"
    /\ loops' = [loops EXCEPT ![l] = "running"]
    /\ UNCHANGED <<route_tasks, completed, joined, daemon, last_warning>>

\* Immortal::respawn, RespawnStrategy::Immediate: the loop is started again
respawn(l) ==
    /\ daemon.state = "running"
    /\ loops[l] = "failed"
    /\ loops' = [loops EXCEPT ![l] = "running"]
    /\ UNCHANGED <<route_tasks, completed, joined, daemon, last_warning>>

\* a route task terminates, with Ok or with an error
route_task_ends(t, ok) ==
    /\ daemon.state = "running"
    /\ route_tasks[t] = "running"
    /\ route_tasks' = [route_tasks EXCEPT ![t] = IF ok THEN "ok" ELSE "err"]
    /\ completed' = Append(completed, t)
    /\ UNCHANGED <<loops, joined, daemon, last_warning>>

\* the join stage returning with the loops left running
join_next_detached ==
    /\ daemon.state = "running"
    /\ IF joined = Cardinality(DOMAIN route_tasks)
        THEN /\ daemon' = Returned("Ok")
             /\ UNCHANGED <<joined, loops>>
        ELSE /\ joined < Len(completed)
             /\ joined' = joined + 1
             /\ IF route_tasks[completed[joined + 1]] = "err"
                    THEN /\ daemon' = Returned(error_of(completed[joined + 1]))
                         /\ loops' = [l \in DaemonLoops |-> "cancelled"]
                    ELSE UNCHANGED <<daemon, loops>>
    /\ UNCHANGED <<route_tasks, completed, last_warning>>

\* the join stage: route_tasks.next() yields the next terminated task, and
\* next? returns its error; when no task is left, main_daemon returns Ok.
\* Returning drops the Immortals, which cancels the loops.
join_next ==
    /\ daemon.state = "running"
    /\ IF joined = Cardinality(DOMAIN route_tasks)
        THEN /\ daemon' = Returned("Ok")
             /\ loops' = [l \in DaemonLoops |-> "cancelled"]
             /\ UNCHANGED joined
        ELSE /\ joined < Len(completed)
             /\ joined' = joined + 1
             /\ IF route_tasks[completed[joined + 1]] = "err"
                    THEN /\ daemon' = Returned(error_of(completed[joined + 1]))
                         /\ loops' = [l \in DaemonLoops |-> "cancelled"]
                    ELSE UNCHANGED <<daemon, loops>>
    /\ UNCHANGED <<route_tasks, completed, last_warning>>

(***************************************************************************)
(* The control protocol (src/src/daemon/control_protocol_impl.rs): the     *)
(* DHT operations and the anonymous identities of send_message.            *)
(***************************************************************************)
MaxCalls == 3

\* the opaque handles a caller gives in SendMessageArgs::id
Handles == {"h1", "h2"}
NoHandle == "-"
\* IdentitySecret::generate: the k-th secret generated; 0 stands for none
NoAnonIdentity == 0

\* how the DHT operation behind a control operation ends
DhtInsertOutcomes == {"inserted", "invalid signature", "no replica"}
DhtGetOutcomes == {"some", "none", "DhtError"}
is_failure(outcome) == outcome \in {"invalid signature", "no replica", "DhtError"}

\* ControlProtocolImpl::insert_rendezvous: awaits dht_insert, returns Ok(())
insert_rendezvous(outcome) == "Ok"

\* ControlProtocolImpl::get_rendezvous: returns what dht_get returned
get_rendezvous(outcome) ==
    CASE outcome = "some" -> "Ok(Some)"
      [] outcome = "none" -> "Ok(None)"
      [] OTHER -> "DhtError"

VARIABLES
    control_op,         \* the latest DHT control operation: which, how the DHT
                        \* operation ended, what the caller got
    anon_identities,    \* AnonIdentities::map: handle -> identity (0: no entry)
    generated,          \* how many identities IdentitySecret::generate has made
    control_impl,       \* which ControlProtocolImpl serves: control_protocol_loop
                        \* builds a new one every time it starts
    control_log         \* the send_message calls and the cache's evictions

control_vars == <<control_op, anon_identities, generated, control_impl, control_log>>

ControlInit ==
    /\ control_op = [op |-> "none", outcome |-> "", result |-> ""]
    /\ anon_identities = [h \in Handles |-> NoAnonIdentity]
    /\ generated = 0
    /\ control_impl = 1
    /\ control_log = <<>>

call_insert_rendezvous(outcome) ==
    /\ control_op' = [op |-> "insert_rendezvous", outcome |-> outcome,
                      result |-> insert_rendezvous(outcome)]
    /\ UNCHANGED <<anon_identities, generated, control_impl, control_log>>

call_get_rendezvous(outcome) ==
    /\ control_op' = [op |-> "get_rendezvous", outcome |-> outcome,
                      result |-> get_rendezvous(outcome)]
    /\ UNCHANGED <<anon_identities, generated, control_impl, control_log>>

\* AnonIdentities::get generating a secret on every call
AnonIdentities_get_fresh(id) ==
    [identity |-> generated + 1,
     map |-> [anon_identities EXCEPT ![id] = generated + 1],
     generated |-> generated + 1]

\* AnonIdentities::get: map.get_with_by_ref(id, IdentitySecret::generate)
AnonIdentities_get(id) ==
    IF anon_identities[id] # NoAnonIdentity
        THEN [identity |-> anon_identities[id], map |-> anon_identities,
              generated |-> generated]
        ELSE [identity |-> generated + 1,
              map |-> [anon_identities EXCEPT ![id] = generated + 1],
              generated |-> generated + 1]

\* ControlProtocolImpl::send_message: args.id.map(|id| anon_identities.get(&id))
send_message(id) ==
    /\ Len(SelectSeq(control_log, LAMBDA e : e.kind = "send")) < MaxCalls
    /\ IF id = NoHandle
        THEN /\ control_log' = Append(control_log,
                    [kind |-> "send", impl |-> control_impl, handle |-> id,
                     identity |-> NoAnonIdentity])
             /\ UNCHANGED <<anon_identities, generated>>
        ELSE LET r == AnonIdentities_get(id)
             IN  /\ control_log' = Append(control_log,
                        [kind |-> "send", impl |-> control_impl, handle |-> id,
                         identity |-> r.identity])
                 /\ anon_identities' = r.map
                 /\ generated' = r.generated
    /\ UNCHANGED <<control_op, control_impl>>

\* the cache drops an entry: over capacity, or idle for an hour
evict_identity(id) ==
    /\ anon_identities[id] # NoAnonIdentity
    /\ anon_identities' = [anon_identities EXCEPT ![id] = NoAnonIdentity]
    /\ control_log' = Append(control_log,
            [kind |-> "evict", impl |-> control_impl, handle |-> id,
             identity |-> anon_identities[id]])
    /\ UNCHANGED <<control_op, generated, control_impl>>

\* control_protocol_loop returns and is respawned: ControlProtocolImpl::new
control_protocol_loop ==
    /\ control_impl < MaxCalls
    /\ control_impl' = control_impl + 1
    /\ anon_identities' = [h \in Handles |-> NoAnonIdentity]
    /\ UNCHANGED <<control_op, generated, control_log>>

(***************************************************************************)
(* One gossip loop seen round by round: the steps of the round it is in,   *)
(* the neighbour's answer to the adjacencies RPC in the order it came, and *)
(* how the round ended.                                                    *)
(***************************************************************************)
MaxAnswer == 2      \* adjacencies in one answer to the adjacencies RPC

\* the descriptors an answer is made of
ReturnedAdjacencies == {d \in AdjacencyDescriptors : d.left < d.right}
\* the answers to link_client.adjacencies(random_sample): an RPC error, or
\* a list of descriptors
AdjacencyAnswers ==
    {[kind |-> "err", list |-> <<>>]}
    \cup {[kind |-> "ok", list |-> l] :
            l \in UNION {[1..k -> ReturnedAdjacencies] : k \in 0..MaxAnswer}}

VARIABLES
    observed,       \* the node whose gossip_loop is followed
    response,       \* the answer to this round's adjacencies RPC, and how many
                    \* of its descriptors the loop of step 3 has taken
    round_steps,    \* the steps of the round in the order they ran
    round_ended     \* how the latest round ended, "running" while it runs

round_vars == <<observed, response, round_steps, round_ended>>

NoResponse == [asked |-> FALSE, list |-> <<>>, taken |-> 0]
\* a step of the round: which, on which descriptor of the answer (0: none),
\* whether it went without a failure, and the adjacencies it put in the graph
Step(step, item, ok, added) == [step |-> step, item |-> item, ok |-> ok, added |-> added]

RoundInit ==
    /\ observed = 1
    /\ response = NoResponse
    /\ round_steps = <<>>
    /\ round_ended = "none"

RoundAnyInit ==
    /\ observed \in Nodes
    /\ response = NoResponse
    /\ round_steps = <<>>
    /\ round_ended = "none"

\* step 3 of gossip_once up to its loop, on the neighbour's answer to
\* adjacencies(random_sample): an error returns from gossip_graph
gossip_graph_adjacencies(n, answer) ==
    /\ gossip_pc[n] = "gossip_graph"
    /\ ~response.asked
    /\ response' = [asked |-> TRUE, list |-> answer.list, taken |-> 0]
    /\ gossip_pc' = [gossip_pc EXCEPT
                        ![n] = IF answer.kind = "err" THEN "sleep" ELSE "gossip_graph"]
    /\ UNCHANGED <<relay_graph, gossip_round, sign_log>>

\* the for loop of gossip_graph takes the next descriptor of the answer
gossip_graph_next(n, left_id, right_id) ==
    /\ response.asked
    /\ response.taken < Len(response.list)
    /\ gossip_graph(n, response.list[response.taken + 1], left_id, right_id)
    /\ response' = [response EXCEPT !.taken = @ + 1]

\* the for loop is through the answer: gossip_graph returns Ok
gossip_graph_done(n) ==
    /\ response.asked
    /\ response.taken = Len(response.list)
    /\ gossip_graph_return(n)
    /\ UNCHANGED response

vars == <<peel_vars, rdv_vars, gossip_vars, route_vars, chain_vars, haven_vars, daemon_vars, control_vars, round_vars>>

\* what the steps of one component leave alone
not_peel_vars == <<rdv_vars, gossip_vars, route_vars, chain_vars, haven_vars, daemon_vars, control_vars, round_vars>>
not_rdv_vars == <<peel_vars, gossip_vars, route_vars, chain_vars, haven_vars, daemon_vars, control_vars, round_vars>>
not_gossip_vars == <<peel_vars, rdv_vars, route_vars, chain_vars, haven_vars, daemon_vars, control_vars, round_vars>>
not_route_vars == <<peel_vars, rdv_vars, gossip_vars, chain_vars, haven_vars, daemon_vars, control_vars, round_vars>>
not_chain_vars == <<peel_vars, rdv_vars, gossip_vars, route_vars, haven_vars, daemon_vars, control_vars, round_vars>>
not_haven_vars == <<peel_vars, rdv_vars, gossip_vars, route_vars, chain_vars, daemon_vars, control_vars, round_vars>>
not_daemon_vars == <<peel_vars, rdv_vars, gossip_vars, route_vars, chain_vars, haven_vars, control_vars, round_vars>>
not_control_vars == <<peel_vars, rdv_vars, gossip_vars, route_vars, chain_vars, haven_vars, daemon_vars, round_vars>>
not_round_vars == <<peel_vars, rdv_vars, gossip_vars, route_vars, chain_vars, haven_vars, daemon_vars, control_vars>>

Init == PeelInit /\ RdvInit /\ GossipInit /\ RouteInit /\ ChainInit /\ HavenInit /\ DaemonInit /\ ControlInit /\ RoundInit

\* the raw packets that carry a message for dock A of this node
MessagePackets ==
    { Received(1, Message("dockS", DockA, "m"), SelfFp),
      Received(3, Message("dockT", DockA, "n"), SelfFp) }

Arrive ==
    /\ \E pkt \in RawPackets : arrive(pkt, MaxPkts)
    /\ UNCHANGED not_peel_vars
ArriveMessage ==
    /\ \E pkt \in MessagePackets : arrive(pkt, MaxMsgs)
    /\ UNCHANGED not_peel_vars
LinkUp ==
    /\ \E fp \in Peers : link_up(fp)
    /\ UNCHANGED not_peel_vars
LinkDown ==
    /\ \E fp \in Peers : link_down(fp)
    /\ UNCHANGED not_peel_vars
Bind ==
    /\ \E endpoint \in LocalEndpoints : bind(endpoint)
    /\ UNCHANGED not_peel_vars
RecvFrom ==
    /\ \E c \in 1..MaxSockets : recv_from(c)
    /\ UNCHANGED not_peel_vars
DropSocket ==
    /\ \E c \in 1..MaxSockets : drop_socket(c)
    /\ UNCHANGED not_peel_vars
RegisterDegarbler ==
    /\ \E id \in DegarblerIds : register_degarbler(id)
    /\ UNCHANGED not_peel_vars
PeelForwardLoop ==
    /\ peel_forward_loop
    /\ UNCHANGED not_peel_vars
RespawnPeelForward ==
    /\ respawn_peel_forward
    /\ UNCHANGED not_peel_vars

(***************************************************************************)
(* Spec: the engine under every kind of raw packet.                        *)
(***************************************************************************)
Next ==
    \/ Arrive
    \/ LinkUp
    \/ LinkDown
    \/ Bind
    \/ RecvFrom
    \/ RegisterDegarbler
    \/ PeelForwardLoop
    \/ RespawnPeelForward

Spec == Init /\ [][Next]_vars

\* the executor runs a task that can take a step, and the supervisor
\* respawns a loop that returned
PeelFairness ==
    /\ WF_vars(PeelForwardLoop)
    /\ WF_vars(RespawnPeelForward)

(***************************************************************************)
(* SocketSpec: the engine and the sockets under message traffic; sockets   *)
(* are bound, read and dropped.                                            *)
(***************************************************************************)
SocketNext ==
    \/ ArriveMessage
    \/ Bind
    \/ RecvFrom
    \/ DropSocket
    \/ PeelForwardLoop
    \/ RespawnPeelForward

SocketSpec == Init /\ [][SocketNext]_vars

(***************************************************************************)
(* ForwardSpec: the engine under packets to forward while the neighbour's  *)
(* session comes and goes.  QueueSpec: the engine filling a socket's       *)
(* channel while the socket is read.                                       *)
(***************************************************************************)
ForwardPackets ==
    { Forward(1, SelfFp),
      Received(1, ReplyBlocks(<<"rb1", "rb2">>), SelfFp) }

ArriveForward ==
    /\ \E pkt \in ForwardPackets : arrive(pkt, MaxPkts)
    /\ UNCHANGED not_peel_vars

ForwardNext ==
    \/ ArriveForward
    \/ LinkUp
    \/ LinkDown
    \/ PeelForwardLoop
    \/ RespawnPeelForward

ForwardSpec == Init /\ [][ForwardNext]_vars

FairForwardSpec == ForwardSpec /\ PeelFairness

QueuedPackets == { Received(1, Message("dockS", DockA, "m"), SelfFp) }

ArriveQueued ==
    /\ \E pkt \in QueuedPackets : arrive(pkt, MaxMsgs)
    /\ UNCHANGED not_peel_vars

QueueNext ==
    \/ ArriveQueued
    \/ Bind
    \/ RecvFrom
    \/ PeelForwardLoop
    \/ RespawnPeelForward

QueueSpec == Init /\ [][QueueNext]_vars

FairQueueSpec == QueueSpec /\ PeelFairness

(***************************************************************************)
(* RdvSpec: the rendezvous forwarder under forward requests.               *)
(***************************************************************************)
RdvArrive ==
    /\ \E msg \in RdvMsgs, src \in RdvEndpoints : rdv_arrive(msg, src)
    /\ UNCHANGED not_rdv_vars
RegisterHaven ==
    /\ \E fp \in HavenFps : register_haven(fp)
    /\ UNCHANGED not_rdv_vars
ExpireHaven ==
    /\ \E fp \in HavenFps : expire_haven(fp)
    /\ UNCHANGED not_rdv_vars
EvictSeenSrc ==
    /\ \E pair \in RdvEndpoints \X RdvEndpoints : evict_seen_src(pair)
    /\ UNCHANGED not_rdv_vars
RendezvousForward ==
    /\ \E send_ok \in BOOLEAN : rendezvous_forward_loop(send_ok)
    /\ UNCHANGED not_rdv_vars

RespawnRendezvousForward ==
    /\ respawn_rendezvous_forward
    /\ UNCHANGED not_rdv_vars

RdvNext ==
    \/ RdvArrive
    \/ RegisterHaven
    \/ ExpireHaven
    \/ EvictSeenSrc
    \/ RendezvousForward
    \/ RespawnRendezvousForward

RdvSpec == Init /\ [][RdvNext]_vars

(***************************************************************************)
(* GossipSpec: the gossip loops of the two neighbours.                     *)
(***************************************************************************)
GossipLoop ==
    /\ \E n \in Nodes :
            /\ gossip_loop(n)
            /\ tampered' = [tampered EXCEPT ![n] = FALSE]
    /\ UNCHANGED <<adjacencies, round_graph>>
    /\ UNCHANGED not_gossip_vars
FetchIdentity ==
    /\ \E n \in Nodes :
         \E their_id \in IdentityAnswers(neighbor_of(n)) : fetch_identity(n, their_id)
    /\ UNCHANGED <<tampered, adjacencies, round_graph>>
    /\ UNCHANGED not_gossip_vars
SignAdjacency ==
    /\ \E n \in Nodes, complete \in SignAnswers : sign_adjacency(n, complete)
    /\ UNCHANGED <<tampered, adjacencies, round_graph>>
    /\ UNCHANGED not_gossip_vars
GossipGraph ==
    /\ \E n \in Nodes, adjacency \in AdjacencyDescriptors :
         \E left_id \in IdentityAnswers(adjacency.left),
            right_id \in IdentityAnswers(adjacency.right) :
                /\ gossip_graph(n, adjacency, left_id, right_id)
                /\ tampered' = [tampered EXCEPT ![n] = ~adjacency.valid]
    /\ UNCHANGED <<adjacencies, round_graph>>
    /\ UNCHANGED not_gossip_vars
GossipGraphReturn ==
    /\ \E n \in Nodes : gossip_graph_return(n)
    /\ UNCHANGED <<tampered, adjacencies, round_graph>>
    /\ UNCHANGED not_gossip_vars
GossipTimeout ==
    /\ \E n \in Nodes : gossip_timeout(n)
    /\ UNCHANGED <<tampered, adjacencies, round_graph>>
    /\ UNCHANGED not_gossip_vars
GossipTick ==
    /\ \E n \in Nodes : gossip_tick(n)
    /\ UNCHANGED <<tampered, adjacencies, round_graph>>
    /\ UNCHANGED not_gossip_vars

GossipNext ==
    \/ GossipLoop
    \/ FetchIdentity
    \/ SignAdjacency
    \/ GossipGraph
    \/ GossipGraphReturn
    \/ GossipTimeout
    \/ GossipTick

GossipSpec == Init /\ [][GossipNext]_vars

(***************************************************************************)
(* RouteSpec: route_to_instructs on every route and relay graph.           *)
(***************************************************************************)
RouteToInstructs ==
    /\ \E r \in Routes, ids \in SUBSET Fps : call_route_to_instructs(r, ids)
    /\ UNCHANGED not_route_vars

RouteNext == RouteToInstructs

RouteSpec == Init /\ [][RouteNext]_vars

(***************************************************************************)
(* ChainSpec: a socket of A sends to a socket of C along A - B - C.        *)
(***************************************************************************)
SocketSendTo ==
    /\ \E body \in Bodies : socket_send_to(body, SocketC)
    /\ UNCHANGED not_chain_vars
ChainPeelForwardAt(n) ==
    /\ chain_peel_forward_loop(n)
    /\ UNCHANGED not_chain_vars
ChainPeelForwardLoop == \E n \in ChainNodes : ChainPeelForwardAt(n)

ChainNext ==
    \/ SocketSendTo
    \/ ChainPeelForwardLoop

ChainAnyStart == ChainAnyInit /\ PeelInit /\ RdvInit /\ GossipInit /\ RouteInit /\ HavenInit /\ DaemonInit /\ ControlInit /\ RoundInit

\* every node's peel-forward loop, supervised, keeps taking packets
ChainSpec ==
    /\ ChainAnyStart
    /\ [][ChainNext]_vars
    /\ \A n \in ChainNodes : WF_vars(ChainPeelForwardAt(n))

(***************************************************************************)
(* HavenSpec: a client connecting to a haven and using the connection.     *)
(***************************************************************************)
HavenConnect ==
    /\ \E haven \in {HavenEp, OtherEp}, dht \in DhtResults, sent \in BOOLEAN,
          answer \in Answers : call_connect(haven, dht, sent, answer)
    /\ UNCHANGED not_haven_vars
HavenBind ==
    /\ HavenListener_bind
    /\ UNCHANGED not_haven_vars
HavenSend ==
    /\ \E bts \in Bodies : HavenConnection_send(bts)
    /\ UNCHANGED not_haven_vars
HavenRecv ==
    /\ HavenConnection_recv
    /\ UNCHANGED not_haven_vars

HavenNext ==
    \/ HavenConnect
    \/ HavenBind
    \/ HavenSend
    \/ HavenRecv

HavenSpec == Init /\ [][HavenNext]_vars

(***************************************************************************)
(* DaemonSpec: main_daemon with its loops and route tasks.                 *)
(***************************************************************************)
LoopReturnsError ==
    /\ \E l \in FallibleLoops : loop_returns_error(l)
    /\ UNCHANGED not_daemon_vars
RespawnLoop(l) ==
    /\ respawn(l)
    /\ UNCHANGED not_daemon_vars
Respawn == \E l \in SupervisedLoops : RespawnLoop(l)
RouteTaskEnds ==
    /\ \E t \in DOMAIN route_tasks, ok \in BOOLEAN : route_task_ends(t, ok)
    /\ UNCHANGED not_daemon_vars
JoinNext ==
    /\ join_next
    /\ UNCHANGED not_daemon_vars

DaemonNext ==
    \/ LoopReturnsError
    \/ Respawn
    \/ RouteTaskEnds
    \/ JoinNext

DaemonAnyStart == DaemonAnyInit /\ PeelInit /\ RdvInit /\ GossipInit /\ RouteInit /\ ChainInit /\ HavenInit /\ ControlInit /\ RoundInit

\* the supervisor restarts a loop at once, and the join stage goes on
DaemonSpec ==
    /\ DaemonAnyStart
    /\ [][DaemonNext]_vars
    /\ \A l \in SupervisedLoops : WF_vars(RespawnLoop(l))
    /\ WF_vars(JoinNext)

(***************************************************************************)
(* ControlSpec: the control protocol's DHT operations and send_message.    *)
(***************************************************************************)
InsertRendezvous ==
    /\ \E outcome \in DhtInsertOutcomes : call_insert_rendezvous(outcome)
    /\ UNCHANGED not_control_vars
GetRendezvous ==
    /\ \E outcome \in DhtGetOutcomes : call_get_rendezvous(outcome)
    /\ UNCHANGED not_control_vars
SendMessage ==
    /\ \E id \in Handles \cup {NoHandle} : send_message(id)
    /\ UNCHANGED not_control_vars
EvictIdentity ==
    /\ \E id \in Handles : evict_identity(id)
    /\ UNCHANGED not_control_vars
ControlProtocolLoop ==
    /\ control_protocol_loop
    /\ UNCHANGED not_control_vars

ControlNext ==
    \/ InsertRendezvous
    \/ GetRendezvous
    \/ SendMessage
    \/ EvictIdentity
    \/ ControlProtocolLoop

ControlSpec == Init /\ [][ControlNext]_vars

(***************************************************************************)
(* RoundSpec: one node's gossip loop with a neighbour that answers         *)
(* anything, the adjacencies answer handled in the order it came.          *)
(***************************************************************************)
not_gossip_round_vars ==
    <<peel_vars, rdv_vars, route_vars, chain_vars, haven_vars, daemon_vars, control_vars>>

RoundStart == RoundAnyInit /\ PeelInit /\ RdvInit /\ GossipInit /\ RouteInit /\ ChainInit /\ HavenInit /\ DaemonInit /\ ControlInit

\* an identity RPC of the turn fails, or an insertion of the turn is rejected
turn_fails(graph, adjacency, left_id, right_id) ==
    LET with_left == IF left_id.kind = "some" /\ left_id.desc.valid
                        THEN [graph EXCEPT !.identities = @ \cup {left_id.desc.fp}]
                        ELSE graph
        with_both == IF right_id.kind = "some" /\ right_id.desc.valid
                        THEN [with_left EXCEPT !.identities = @ \cup {right_id.desc.fp}]
                        ELSE with_left
    IN  \/ left_id.kind = "err"
        \/ left_id.kind = "some" /\ ~left_id.desc.valid
        \/ right_id.kind = "err"
        \/ right_id.kind = "some" /\ ~right_id.desc.valid
        \/ ~adjacency.valid
        \/ adjacency.left >= adjacency.right
        \/ {adjacency.left, adjacency.right} \ with_both.identities # {}

\* the step the observed loop takes in this transition
Ran(step, item, ok) ==
    Step(step, item, ok,
         relay_graph'[observed].adjacencies \ relay_graph[observed].adjacencies)

\* how a step that moved the loop to pc ended the round, if it did
ended_by(n, ok_end) ==
    IF gossip_pc'[n] = "sleep" THEN ok_end ELSE round_ended

RoundLoop ==
    /\ gossip_loop(observed)
    /\ round_graph' = [round_graph EXCEPT ![observed] = relay_graph[observed]]
    /\ response' = NoResponse
    /\ round_steps' = <<Ran("insert_identity", 0, TRUE)>>
    /\ round_ended' = "running"
    /\ UNCHANGED <<tampered, adjacencies, observed>>
    /\ UNCHANGED not_gossip_round_vars
RoundFetchIdentity ==
    /\ \E their_id \in IdentityAnswers(neighbor_of(observed)) :
            fetch_identity(observed, their_id)
    /\ round_steps' = Append(round_steps,
            Ran("fetch_identity", 0, gossip_pc'[observed] # "sleep"))
    /\ round_ended' = ended_by(observed, "failed")
    /\ UNCHANGED <<tampered, adjacencies, round_graph, observed, response>>
    /\ UNCHANGED not_gossip_round_vars
RoundSignAdjacency ==
    /\ \E complete \in SignAnswers : sign_adjacency(observed, complete)
    /\ round_steps' = Append(round_steps,
            Ran("sign_adjacency", 0, gossip_pc'[observed] # "sleep"))
    /\ round_ended' = ended_by(observed, "failed")
    /\ UNCHANGED <<tampered, adjacencies, round_graph, observed, response>>
    /\ UNCHANGED not_gossip_round_vars
RoundAdjacencies ==
    /\ \E answer \in AdjacencyAnswers : gossip_graph_adjacencies(observed, answer)
    /\ round_steps' = Append(round_steps,
            Ran("adjacencies", 0, gossip_pc'[observed] # "sleep"))
    /\ round_ended' = ended_by(observed, "failed")
    /\ UNCHANGED <<tampered, adjacencies, round_graph, observed>>
    /\ UNCHANGED not_gossip_round_vars
RoundGossipGraph ==
    /\ response.taken < Len(response.list)
    /\ \E left_id \in IdentityAnswers(response.list[response.taken + 1].left),
          right_id \in IdentityAnswers(response.list[response.taken + 1].right) :
            /\ gossip_graph_next(observed, left_id, right_id)
            /\ round_steps' = Append(round_steps,
                    Ran("gossip_graph", response.taken + 1,
                         ~turn_fails(relay_graph[observed],
                                     response.list[response.taken + 1],
                                     left_id, right_id)))
    /\ round_ended' = ended_by(observed, "failed")
    /\ UNCHANGED <<tampered, adjacencies, round_graph, observed>>
    /\ UNCHANGED not_gossip_round_vars
RoundGossipGraphDone ==
    /\ gossip_graph_done(observed)
    /\ round_ended' = "ok"
    /\ UNCHANGED <<tampered, adjacencies, round_graph, observed, round_steps>>
    /\ UNCHANGED not_gossip_round_vars
RoundTimeout ==
    /\ gossip_timeout(observed)
    /\ round_steps' = Append(round_steps, Ran("timeout", 0, FALSE))
    /\ round_ended' = "timed out"
    /\ UNCHANGED <<tampered, adjacencies, round_graph, observed, response>>
    /\ UNCHANGED not_gossip_round_vars
RoundTick ==
    /\ gossip_tick(observed)
    /\ UNCHANGED <<tampered, adjacencies, round_graph>>
    /\ UNCHANGED round_vars
    /\ UNCHANGED not_gossip_round_vars

RoundNext ==
    \/ RoundLoop
    \/ RoundFetchIdentity
    \/ RoundSignAdjacency
    \/ RoundAdjacencies
    \/ RoundGossipGraph
    \/ RoundGossipGraphDone
    \/ RoundTimeout
    \/ RoundTick

\* the sleep timer fires and the loop body runs on
RoundSpec ==
    RoundStart /\ [][RoundNext]_vars /\ WF_vars(RoundTick) /\ WF_vars(RoundLoop)

(***************************************************************************)
(* HonestGossipSpec: the gossip loops of two honest neighbours.            *)
(***************************************************************************)
HonestGossipLoop ==
    /\ \E n \in Nodes :
            /\ gossip_loop(n)
            /\ adjacencies' = [adjacencies EXCEPT ![n] = NotAsked]
            /\ round_graph' = [round_graph EXCEPT ![n] = relay_graph[n]]
    /\ UNCHANGED tampered
    /\ UNCHANGED not_gossip_vars
HonestFetchIdentity ==
    /\ \E n \in Nodes :
            fetch_identity(n, identity_rpc(neighbor_of(n), neighbor_of(n)))
    /\ UNCHANGED <<tampered, adjacencies, round_graph>>
    /\ UNCHANGED not_gossip_vars
HonestSignAdjacency ==
    /\ \E n \in Nodes :
            sign_adjacency(n, sign_adjacency_rpc(neighbor_of(n),
                                [left |-> n, right |-> neighbor_of(n)]))
    /\ UNCHANGED <<tampered, adjacencies, round_graph>>
    /\ UNCHANGED not_gossip_vars
HonestGossipGraphAsk ==
    /\ \E n \in Nodes :
         \E random_sample \in random_samples(all_nodes(relay_graph[n])) :
            gossip_graph_ask(n, adjacencies_rpc(neighbor_of(n), random_sample))
    /\ UNCHANGED <<tampered, round_graph>>
    /\ UNCHANGED not_gossip_vars
HonestGossipGraph ==
    /\ \E n \in Nodes :
         \E adjacency \in adjacencies[n].rest :
            /\ adjacencies[n].asked
            /\ gossip_graph(n, adjacency,
                            identity_rpc(neighbor_of(n), adjacency.left),
                            identity_rpc(neighbor_of(n), adjacency.right))
            /\ adjacencies' = [adjacencies EXCEPT ![n].rest = @ \ {adjacency}]
    /\ UNCHANGED <<tampered, round_graph>>
    /\ UNCHANGED not_gossip_vars
HonestGossipGraphReturn ==
    /\ \E n \in Nodes :
            /\ adjacencies[n].asked
            /\ adjacencies[n].rest = {}
            /\ gossip_graph_return(n)
    /\ UNCHANGED <<tampered, adjacencies, round_graph>>
    /\ UNCHANGED not_gossip_vars
SleepTimers ==
    /\ sleep_timers
    /\ UNCHANGED <<tampered, adjacencies, round_graph>>
    /\ UNCHANGED not_gossip_vars

HonestGossipNext ==
    \/ HonestGossipLoop
    \/ HonestFetchIdentity
    \/ HonestSignAdjacency
    \/ HonestGossipGraphAsk
    \/ HonestGossipGraph
    \/ HonestGossipGraphReturn
    \/ SleepTimers

HonestInit == PeelInit /\ RdvInit /\ HonestGossipInit /\ RouteInit /\ ChainInit /\ HavenInit /\ DaemonInit /\ ControlInit /\ RoundInit

HonestGossipSpec ==
    /\ HonestInit
    /\ [][HonestGossipNext]_vars
    /\ WF_vars(HonestGossipNext)

(***************************************************************************)
(* What a step of the engine did, read off the state before and after.     *)
(***************************************************************************)
B2N(b) == IF b THEN 1 ELSE 0

\* the step took a raw packet from the table's queue
Took == Len(taken') = Len(taken) + 1
TookPkt == taken'[Len(taken')]
TookPid == Len(taken')

\* the packet went out on the session of a neighbour the table holds
ForwardedNow ==
    \E fp \in table_sessions :
        link_out' = Append(link_out, [to |-> fp, pid |-> TookPid])

\* the packet's message went into the channel of exactly one registered socket
DeliveredNow ==
    \E e \in AllLocalEndpoints :
        LET c == socket_recv_queues[e]
        IN  /\ c # 0
            /\ Len(channels'[c]) = Len(channels[c]) + 1
            /\ channels'[c][Len(channels'[c])].pid = TookPid
            /\ \A d \in 1..MaxSockets : d # c => channels'[d] = channels[d]

\* the packet carried a batch of reply blocks and the whole batch is filed
\* (a batch of no blocks files nothing and counts as filed)
FiledNow ==
    /\ TookPkt.kind \in {"Received", "GarbledReply"}
    /\ TookPkt.inner.type = "ReplyBlocks"
    /\ restart_log' = restart_log
    /\ \A f \in SenderFps :
         anon_destinations'[f] =
            IF f = TookPkt.from
                THEN anon_destinations[f] \o
                     [i \in 1..Len(TookPkt.inner.blocks) |->
                         [block |-> TookPkt.inner.blocks[i], pid |-> TookPid]]
                ELSE anon_destinations[f]

\* the loop returned an error on the packet: the packet is gone
DroppedNow ==
    /\ Len(restart_log') = Len(restart_log) + 1
    /\ restart_log'[Len(restart_log')].pid = TookPid
    /\ restart_log'[Len(restart_log')].label = "peel_forward"
    /\ peel_forward' = "failed"

NoChannelGrows ==
    \A c \in 1..MaxSockets : Len(channels'[c]) <= Len(channels[c])

C1_Step ==
    IF Took
        THEN /\ B2N(ForwardedNow) + B2N(DeliveredNow) + B2N(FiledNow)
                    + B2N(DroppedNow) = 1
             /\ link_out' # link_out => ForwardedNow
             /\ channels' # channels => DeliveredNow
             /\ anon_destinations' # anon_destinations => FiledNow
             /\ restart_log' # restart_log => DroppedNow
        ELSE /\ link_out' = link_out
             /\ anon_destinations' = anon_destinations
             /\ restart_log' = restart_log
             /\ NoChannelGrows

\* C1: every raw packet the engine takes from the table's queue ends in exactly
\* one of four outcomes (forwarded to a neighbour with a session, delivered to
\* the channel of a bound socket, filed as reply blocks, dropped with the loop's
\* error logged), and no other step forwards, delivers, files or drops anything.
C1_ExactlyOneOutcome == [][C1_Step]_vars

\* three packets taken: one forwarded, one delivered, one dropped
C1_Witness ==
    /\ Len(taken) = 3
    /\ Len(link_out) = 1
    /\ \E c \in 1..MaxSockets : Len(channels[c]) + Len(recv_log[c]) = 1
    /\ Len(restart_log) = 1

\* the step took a packet that peels to Forward with no session for its next hop
ForwardNoSession ==
    /\ Took
    /\ TookPkt.key = SelfFp
    /\ TookPkt.kind = "Forward"
    /\ TookPkt.to \notin table_sessions

C2_Step ==
    ForwardNoSession =>
        /\ DroppedNow
        /\ restart_log'[Len(restart_log')].err = "NoNextHop"
        /\ link_out' = link_out
        /\ channels' = channels
        /\ anon_destinations' = anon_destinations
        /\ table_queue' = Tail(table_queue)

\* every packet that has arrived is taken by the engine in the end
C2_Progress ==
    \A i \in 1..MaxPkts :
        (Len(taken) + Len(table_queue) >= i) ~> (Len(taken) >= i)

\* C2: a packet that peels to Forward while the table has no session for its
\* next hop is dropped: nothing is sent, queued or filed for it, it is not put
\* back in the table's queue, the packets behind it stay queued, and the engine
\* (respawned) takes every packet that arrives.
C2_ForwardNoSessionDropped == [][C2_Step]_vars /\ C2_Progress

\* a Forward packet was dropped for want of a session and a later packet was
\* forwarded
C2_Witness ==
    \E i \in 1..Len(restart_log) :
        /\ restart_log[i].err = "NoNextHop"
        /\ \E j \in 1..Len(link_out) : link_out[j].pid > restart_log[i].pid

\* the error the loop returned in this step
ErrNow == restart_log'[Len(restart_log')].err

\* what try_send is given for the packet's message
ItemNow == [msg |-> TookPkt.inner, from |-> TookPkt.from, pid |-> TookPid]

\* the step took a packet that peels to Received with a Message inside
ReceivedMessage ==
    /\ Took
    /\ TookPkt.key = SelfFp
    /\ TookPkt.kind = "Received"
    /\ TookPkt.inner.type = "Message"

C3_Step ==
    ReceivedMessage =>
        LET dest == Endpoint(SelfFp, TookPkt.inner.dest_dock)
            c    == socket_recv_queues[dest]
        IN  IF c = 0
                THEN /\ channels' = channels
                     /\ DroppedNow
                     /\ ErrNow = "NoSocketListening"
                ELSE /\ \A d \in 1..MaxSockets : d # c => channels'[d] = channels[d]
                     /\ channels'[c] \in {channels[c], Append(channels[c], ItemNow)}
                     /\ channels'[c] = channels[c] <=> DroppedNow
                     /\ (c \notin dropped_sockets /\ Len(channels[c]) < QueueCap)
                            => channels'[c] = Append(channels[c], ItemNow)

\* C3: a received Message goes, with the sender's fingerprint, to the channel of
\* the socket registered under exactly (own fingerprint, dest_dock) and to no
\* other channel; with no socket registered there the message is dropped and
\* every channel is unchanged.
C3_MessageToRegisteredSocket == [][C3_Step]_vars

\* sockets are registered under (self, A) and (anon, A); a message of sender 3
\* is queued on the first, nothing on the second, and an earlier message found
\* no socket
C3_Witness ==
    LET c == socket_recv_queues[Endpoint(SelfFp, DockA)]
        a == socket_recv_queues[Endpoint(AnonFp, DockA)]
    IN  /\ c # 0 /\ a # 0
        /\ channels[c] # <<>> /\ channels[c][1].from = 3
        /\ channels[a] = <<>>
        /\ \E i \in 1..Len(restart_log) : restart_log[i].err = "NoSocketListening"

\* the step took a packet whose message is for a registered socket with a full
\* channel
DeliveryToFull(c) ==
    /\ ReceivedMessage
    /\ c = socket_recv_queues[Endpoint(SelfFp, TookPkt.inner.dest_dock)]
    /\ c # 0
    /\ c \notin dropped_sockets
    /\ Len(channels[c]) = QueueCap

C4_Step ==
    \A c \in 1..MaxSockets :
        DeliveryToFull(c) =>
            /\ channels' = channels
            /\ DroppedNow
            /\ ErrNow = "Full"
            /\ table_queue' = Tail(table_queue)

C4_Bounded == \A c \in 1..MaxSockets : Len(channels[c]) <= QueueCap

C4_Progress ==
    \A i \in 1..MaxMsgs :
        (Len(taken) + Len(table_queue) >= i) ~> (Len(taken) >= i)

\* C4: a socket's channel never holds more than QueueCap messages; a message for
\* a socket whose channel is full is dropped, the queued messages stay as they
\* are, and the engine, which did not wait, takes every packet that arrives.
C4_FullQueueDrops == []C4_Bounded /\ [][C4_Step]_vars /\ C4_Progress

\* a message was dropped on a full channel, the channel still holds its
\* QueueCap messages, and a later packet was taken
C4_Witness ==
    \E i \in 1..Len(restart_log) :
        /\ restart_log[i].err = "Full"
        /\ Len(taken) > restart_log[i].pid
        /\ \E c \in 1..MaxSockets : Len(channels[c]) = QueueCap

\* the step took a garbled reply
Garbled ==
    /\ Took
    /\ TookPkt.key = SelfFp
    /\ TookPkt.kind = "GarbledReply"

C5_Step ==
    Garbled =>
        IF TookPkt.id \notin degarblers
            THEN /\ DroppedNow
                 /\ ErrNow = "NoDegarbler"
                 /\ channels' = channels
                 /\ anon_destinations' = anon_destinations
                 /\ link_out' = link_out
        ELSE IF TookPkt.gkey = DegarblerOf(TookPkt.id).gkey
                    /\ TookPkt.inner.type = "Message"
            THEN LET anon_fp == DegarblerOf(TookPkt.id).my_anon_fp
                     c == socket_recv_queues[Endpoint(anon_fp, TookPkt.inner.dest_dock)]
                 IN  /\ anon_fp # SelfFp
                     /\ \A d \in 1..MaxSockets : d # c => channels'[d] = channels[d]
                     /\ c = 0 => DroppedNow /\ ErrNow = "NoSocketListening"
                     /\ (c # 0 /\ Len(channels[c]) < QueueCap)
                            => channels'[c] = Append(channels[c], ItemNow)
        ELSE TRUE

\* C5: a GarbledReply whose id has no degarbler is dropped and nothing is
\* delivered; with a degarbler, the degarbled message goes to the socket
\* registered under (the degarbler's anonymous fingerprint, dest_dock), and the
\* channel of the socket under (own fingerprint, dest_dock) is left unchanged.
C5_GarbledReplyToAnonEndpoint == [][C5_Step]_vars

\* sockets under (self, A) and (anon, A): the degarbled message is queued on
\* the anonymous one, none on the node's own, and an earlier garbled reply found
\* no degarbler
C5_Witness ==
    LET c == socket_recv_queues[Endpoint(SelfFp, DockA)]
        a == socket_recv_queues[Endpoint(AnonFp, DockA)]
    IN  /\ c # 0 /\ a # 0
        /\ channels[a] # <<>> /\ channels[a][1].msg.body = "r"
        /\ channels[a][1].from = 9
        /\ channels[c] = <<>> /\ recv_log[c] = <<>>
        /\ \E i \in 1..Len(restart_log) : restart_log[i].err = "NoDegarbler"

\* the step took a packet that yields a batch of reply blocks
ReplyBlocksBatch ==
    /\ Took
    /\ TookPkt.key = SelfFp
    /\ TookPkt.inner.type = "ReplyBlocks"
    /\ \/ TookPkt.kind = "Received"
       \/ /\ TookPkt.kind = "GarbledReply"
          /\ TookPkt.id \in degarblers
          /\ TookPkt.gkey = DegarblerOf(TookPkt.id).gkey

C6_Step ==
    ReplyBlocksBatch =>
        /\ FiledNow
        /\ UNCHANGED <<table_sessions, link_out, socket_recv_queues, channels,
                       n_sockets, dropped_sockets, recv_log, degarblers,
                       peel_forward, restart_log>>

\* C6: a received ReplyBlocks batch appends every block of the batch, in order,
\* under the sender's fingerprint in anon_destinations and changes nothing else:
\* no channel, no link output, no error.
C6_ReplyBlocksFiledOnly == [][C6_Step]_vars

\* the two blocks of sender 1's batch are filed under 1, and a message was
\* delivered before
C6_Witness ==
    /\ Len(anon_destinations[1]) = 2
    /\ anon_destinations[1][1].block = "rb1"
    /\ anon_destinations[1][2].block = "rb2"
    /\ \E c \in 1..MaxSockets : channels[c] # <<>>

\* the pids of a sequence of entries strictly increase
Increasing(seq) ==
    \A i, j \in 1..Len(seq) : i < j => seq[i].pid < seq[j].pid

\* C7: what the engine leaves behind is in the order the packets left the
\* table's queue, and a socket hands out its messages in that order: for every
\* socket, the messages recv_from has returned followed by the messages still
\* queued are in the order their packets were taken.
C7_FifoDelivery ==
    /\ \A c \in 1..MaxSockets : Increasing(recv_log[c] \o channels[c])
    /\ Increasing(link_out)
    /\ Increasing(restart_log)

\* recv_from returned two messages of one socket, and the loop failed on a
\* packet taken between the two
C7_Witness ==
    \E c \in 1..MaxSockets :
        \E i, j \in 1..Len(recv_log[c]) :
            /\ i < j
            /\ \E k \in 1..Len(restart_log) :
                /\ recv_log[c][i].pid < restart_log[k].pid
                /\ restart_log[k].pid < recv_log[c][j].pid

(***************************************************************************)
(* What a step of the rendezvous forwarder did.                            *)
(***************************************************************************)
\* the step took a request from the forwarder's socket
RdvTook == Len(rdv_taken') = Len(rdv_taken) + 1
RdvReq == rdv_taken'[Len(rdv_taken')]

\* the step called send_to once, for dest_ep, with the encoding of
\* (inner, src_endpoint)
RdvForwarded ==
    /\ Len(rdv_sent') = Len(rdv_sent) + 1
    /\ SubSeq(rdv_sent', 1, Len(rdv_sent)) = rdv_sent
    /\ LET call == rdv_sent'[Len(rdv_sent')]
       IN  /\ call.to = RdvReq.msg.dest_ep
           /\ call.inner = RdvReq.msg.inner
           /\ call.src = RdvReq.src

C8_Step ==
    RdvTook =>
        IF RdvReq.msg.wellformed
            THEN LET src == RdvReq.src
                     dest == RdvReq.msg.dest_ep
                     registered == dest.fingerprint \in registered_havens
                     memoized == <<dest, src>> \in seen_srcs
                 IN  /\ RdvForwarded <=> (registered \/ memoized)
                     /\ ~RdvForwarded => rdv_sent' = rdv_sent
                     /\ seen_srcs' = IF registered THEN seen_srcs \cup {<<src, dest>>}
                                                   ELSE seen_srcs
            ELSE /\ rdv_sent' = rdv_sent
                 /\ seen_srcs' = seen_srcs

\* C8: the forwarder calls send_to for a request (inner, dest) received from src
\* exactly when dest's fingerprint is in registered_havens or the pair
\* (dest, src) is in the cache seen_srcs; the call is for dest with (inner, src);
\* the pair (src, dest) is put in the cache only when dest's fingerprint is
\* registered; every other request sends nothing and memoizes nothing.
C8_ForwardIffRegisteredOrSeen == [][C8_Step]_vars

\* a client's request was forwarded to the haven, the haven's answer was
\* forwarded to the client, whose fingerprint is no haven, and one more request
\* was dropped
C8_Witness ==
    /\ \E i, j \in 1..Len(rdv_sent) :
            /\ i < j
            /\ rdv_sent[i].to = HavenEp /\ rdv_sent[i].src = ClientEp
            /\ rdv_sent[j].to = ClientEp /\ rdv_sent[j].src = HavenEp
    /\ ClientEp.fingerprint \notin registered_havens
    /\ Len(rdv_taken) > Len(rdv_sent)
    /\ rdv_log = <<>>

(***************************************************************************)
(* Gossip: who signs an adjacency, and what a relay graph holds.           *)
(***************************************************************************)
C9_Node(n) ==
    LET m == neighbor_of(n)
        log == sign_log[n]
    IN  /\ n > m => log = <<>>
        /\ \A i \in 1..Len(log) :
                /\ log[i].left = n
                /\ log[i].right = m
                /\ log[i].left < log[i].right
        /\ \A i, j \in 1..Len(log) : i < j => log[i].round < log[j].round
        /\ (n < m /\ gossip_pc[n] = "gossip_graph")
                => \E i \in 1..Len(log) : log[i].round = gossip_round[n]

\* C9: of two neighbours, the one with the larger fingerprint never builds a
\* descriptor for signing; the one with the smaller fingerprint builds at most
\* one in a round, and has built one in every round that went on to
\* gossip_graph; each descriptor built has left = the node's own fingerprint,
\* right = the neighbour's, and left < right.
C9_SmallerSignsOnce == \A n \in Nodes : C9_Node(n)

\* both nodes are in step 3 of their second round: the smaller one has sent a
\* descriptor in each of its rounds, the larger one none
C9_Witness ==
    /\ \A n \in Nodes : gossip_round[n] = 2 /\ gossip_pc[n] = "gossip_graph"
    /\ Len(sign_log[1]) = 2
    /\ sign_log[2] = <<>>

\* C10: in every node's relay graph, each adjacency has left < right and both
\* its endpoints have an identity in the graph.
C10_AdjacenciesWellFormed ==
    \A n \in Nodes :
        \A a \in relay_graph[n].adjacencies :
            /\ a.left < a.right
            /\ a.left \in relay_graph[n].identities
            /\ a.right \in relay_graph[n].identities

\* node 1 holds the adjacency it signed with node 2 and one it was told
\* about, with the third relay's identity fetched on the way; node 2, told
\* about adjacencies but not given the identities, holds none
C10_Witness ==
    /\ relay_graph[1].adjacencies =
            {[left |-> 1, right |-> 2], [left |-> 2, right |-> 3]}
    /\ relay_graph[1].identities = {1, 2, 3}
    /\ relay_graph[2].adjacencies = {}
    /\ relay_graph[2].identities = {1, 2}
    /\ gossip_pc[2] = "sleep"

\* the step is a turn of node n's step 3 on a descriptor whose signature does
\* not verify
TamperedTurn(n) ==
    /\ gossip_pc[n] = "gossip_graph"
    /\ tampered'[n]

C11_Step ==
    \A n \in Nodes :
        TamperedTurn(n) =>
            /\ relay_graph'[n].adjacencies = relay_graph[n].adjacencies
            /\ relay_graph[n].identities \subseteq relay_graph'[n].identities
            /\ \E adjacency \in AdjacencyDescriptors :
                relay_graph'[n].identities \subseteq
                    relay_graph[n].identities \cup {adjacency.left, adjacency.right}
            /\ gossip_pc'[n] = "sleep"

AdjacencyAB == [left |-> 1, right |-> 2]

BothHoldAB == \A n \in Nodes : AdjacencyAB \in relay_graph[n].adjacencies

TwoRoundsEnded == \A n \in Nodes : gossip_round[n] >= 2 /\ gossip_pc[n] = "sleep"

C12_AdjacencyWithinTwoRounds ==
    /\ <>BothHoldAB
    /\ [](TwoRoundsEnded => BothHoldAB)
    /\ []((\E n \in Nodes : AdjacencyAB \in relay_graph[n].adjacencies) =>
            /\ sign_log[1] # <<>>
            /\ AdjacencyAB \in relay_graph[1].adjacencies)
    /\ [](sign_log[2] = <<>>)

C12_Witness ==
    /\ BothHoldAB
    /\ TwoRoundsEnded
    /\ sign_log[1] # <<>>

(***************************************************************************)
(* C13: two honest neighbours gossip until a round of each, run against    *)
(* the other, has left both relay graphs as they were.  Then the two       *)
(* graphs hold the same identities and the same adjacencies on the         *)
(* component reachable from the two nodes.                                 *)
(***************************************************************************)
RECURSIVE reachable(_, _, _)
reachable(from, edges, k) ==
    IF k = 0 THEN from
    ELSE reachable(from \cup {a.right : a \in {x \in edges : x.left \in from}}
                        \cup {a.left : a \in {x \in edges : x.right \in from}},
                   edges, k - 1)

Component ==
    reachable(Nodes, UNION {relay_graph[n].adjacencies : n \in Nodes},
              Cardinality(Fps))

restricted(graph, component) ==
    [identities |-> graph.identities \cap component,
     adjacencies |-> {a \in graph.adjacencies :
                        a.left \in component /\ a.right \in component}]

NoRoundChanges ==
    \A n \in Nodes :
        /\ gossip_round[n] >= 1
        /\ gossip_pc[n] = "sleep"
        /\ relay_graph[n] = round_graph[n]

C13_FixpointGraphsAgree ==
    NoRoundChanges =>
        restricted(relay_graph[1], Component) = restricted(relay_graph[2], Component)

C13_Witness ==
    /\ NoRoundChanges
    /\ Component = {1, 2, 3}
    /\ relay_graph[1].adjacencies =
            {[left |-> 1, right |-> 2], [left |-> 1, right |-> 3],
             [left |-> 2, right |-> 3]}
    /\ relay_graph[2] = relay_graph[1]

(***************************************************************************)
(* C14: for a route of n >= 1 fingerprints whose non-final fingerprints    *)
(* all have an identity in the relay graph, route_to_instructs returns     *)
(* n-1 instructions in route order, the i-th with the onion key of the     *)
(* identity of route[i] and next_fingerprint = route[i+1]; otherwise it    *)
(* returns NoOnionPublic of the first non-final fingerprint without an     *)
(* identity, and no list.                                                  *)
(***************************************************************************)
NoIdentity == {i \in 1..(Len(route) - 1) : route[i] \notin route_graph.identities}

C14_RouteToInstructs ==
    Len(route) >= 1 =>
        IF NoIdentity = {}
            THEN /\ instructs.kind = "Ok"
                 /\ Len(instructs.instructs) = Len(route) - 1
                 /\ \A i \in 1..(Len(route) - 1) :
                        instructs.instructs[i] =
                            [this_pubkey |-> onion_pk(route[i]),
                             next_fingerprint |-> route[i + 1]]
            ELSE instructs =
                    [kind |-> "NoOnionPublic",
                     fp |-> route[CHOOSE i \in NoIdentity :
                                    \A j \in NoIdentity : i <= j]]

C14_Witness ==
    /\ route = <<1, 2, 3>>
    /\ route_graph.identities = {1, 2}
    /\ instructs.kind = "Ok"
    /\ Len(instructs.instructs) = 2

C14_WitnessNoOnionPublic ==
    /\ route = <<1, 3, 2>>
    /\ route_graph.identities = {1}
    /\ instructs.kind = "NoOnionPublic"

(***************************************************************************)
(* C15: in the chain A - B - C with both link sessions live, the chain's   *)
(* relay graph known to A and a socket of C bound to d, every message      *)
(* that A's socket bound to s sends to (C, d) is injected at A, forwarded  *)
(* by A to B and by B to C, and comes to the queue of C's socket as the    *)
(* message (s, d, body) from A's fingerprint, the body as sent.            *)
(***************************************************************************)
ChainUp ==
    /\ chain_links = {{NodeA, NodeB}, {NodeB, NodeC}}
    /\ chain_graph = ChainGraph
    /\ SocketC \in chain_bound

\* what C's socket holds is what A's socket sent, in order, each message
\* having gone from A to B and from B to C
ChainDelivered ==
    /\ Len(chain_recv[SocketC]) <= Len(chain_sent)
    /\ \A i \in 1..Len(chain_recv[SocketC]) :
            chain_recv[SocketC][i] =
                <<Message(DockS, DockA, chain_sent[i]), NodeA>>
    /\ Len(chain_recv[SocketC]) <= Len(chain_out[NodeB])
    /\ Len(chain_out[NodeB]) <= Len(chain_out[NodeA])
    /\ \A i \in 1..Len(chain_out[NodeA]) : chain_out[NodeA][i].to = NodeB
    /\ \A i \in 1..Len(chain_out[NodeB]) : chain_out[NodeB][i].to = NodeC

C15_ChainDelivers ==
    /\ [](ChainUp => ChainDelivered)
    /\ \A k \in 1..MaxSends :
            (ChainUp /\ Len(chain_sent) >= k) ~> (Len(chain_recv[SocketC]) >= k)
    /\ [](ChainUp => Len(chain_sent) = chain_calls)

C15_Witness ==
    /\ ChainUp
    /\ chain_sent = <<"x", "y">>
    /\ chain_recv[SocketC] =
            << <<Message(DockS, DockA, "x"), NodeA>>,
               <<Message(DockS, DockA, "y"), NodeA>> >>

(***************************************************************************)
(* C16: connect returns a connection only if the ServerHandshake it got    *)
(* carries a signature over (id_pk, eph_pk) that verifies under id_pk and  *)
(* the fingerprint of id_pk is that of the haven asked for; if either      *)
(* check fails, or the DHT lookup timed out, failed or gave no locator,    *)
(* connect returns an error and there is no connection.                    *)
(***************************************************************************)
SignatureVerifies ==
    /\ haven_answer.hs.sig.signer = haven_answer.hs.id_pk
    /\ haven_answer.hs.sig.over = <<haven_answer.hs.id_pk, haven_answer.hs.eph_pk>>

FingerprintMatches == fingerprint(haven_answer.hs.id_pk) = haven_asked.fingerprint

C16_ConnectChecksHandshake ==
    /\ haven_conn.kind = "Ok" =>
            /\ haven_dht = "some"
            /\ haven_answer.kind = "hs"
            /\ SignatureVerifies
            /\ FingerprintMatches
    /\ (/\ haven_conn.kind # "None"
        /\ \/ haven_dht # "some"
           \/ ~SignatureVerifies
           \/ ~FingerprintMatches) =>
            /\ haven_conn.kind = "Err"
            /\ haven_conn.enc_key = NoKey
            /\ haven_conn.dec_key = NoKey

C16_Witness ==
    /\ haven_conn.kind = "Err"
    /\ haven_dht = "some"
    /\ haven_answer.kind = "hs"
    /\ SignatureVerifies
    /\ ~FingerprintMatches

C16_WitnessConnected ==
    /\ haven_conn.kind = "Ok"
    /\ haven_asked = OtherEp
    /\ haven_answer.hs.id_pk = OtherPk

(***************************************************************************)
(* C17: after a handshake that gave the client a connection, the two       *)
(* directions have different keys derived from one shared secret, and the  *)
(* haven's side holds the mirrored connection: the client encrypts with    *)
(* the up-key, which is the server's decryption key, and decrypts with     *)
(* the down-key, which is the server's encryption key.                     *)
(***************************************************************************)
ClientKeys ==
    /\ haven_conn.enc_key = AeadKey(LABEL_HAVEN_UP, haven_conn.enc_key.shared_sec)
    /\ haven_conn.dec_key = AeadKey(LABEL_HAVEN_DN, haven_conn.enc_key.shared_sec)
    /\ haven_conn.enc_key.shared_sec = {ClientEph, haven_answer.hs.eph_pk}
    /\ haven_conn.enc_key # haven_conn.dec_key

C17_SidesMirror ==
    haven_conn.kind = "Ok" =>
        /\ ClientKeys
        /\ \E server \in haven_accepted :
                /\ server.dec_key = haven_conn.enc_key
                /\ server.enc_key = haven_conn.dec_key

\* what connect does establish: the keys of the client's side
ClientKeysDerived == haven_conn.kind = "Ok" => ClientKeys

(***************************************************************************)
(* C18: the Regular frames sent in one direction of a haven connection     *)
(* carry the nonces 0, 1, 2, ... in order, one frame per send, and a recv  *)
(* ends by accepting a frame with a nonce above the last accepted one or   *)
(* by rejecting the frame.                                                 *)
(***************************************************************************)
SendsCalled == {i \in 1..Len(haven_calls) : haven_calls[i].op = "send"}

C18_NoncesIncrease ==
    /\ Len(haven_frames) = Cardinality(SendsCalled)
    /\ \A i \in 1..Len(haven_frames) : haven_frames[i].nonce = i - 1
    /\ \A i \in 1..Len(haven_calls) :
            haven_calls[i].op = "recv" =>
                haven_calls[i].ended \in {"accepted", "rejected"}

(***************************************************************************)
(* C19: whenever a supervised loop has returned an error, that loop is     *)
(* started again: while main_daemon has not returned, the loop is          *)
(* eventually running again after every failure.                           *)
(***************************************************************************)
C19_LoopsRespawned ==
    \A l \in SupervisedLoops :
        (loops[l] = "failed") ~> (loops[l] = "running" \/ daemon.state = "returned")

\* gossip has returned an error, which was logged, and is running again
C19_Witness ==
    /\ daemon.state = "running"
    /\ last_warning = "gossip"
    /\ loops["gossip"] = "running"
    /\ loops["udp_forward_loop"] = "failed"

(***************************************************************************)
(* C20: main_daemon returns an error only when a route task has            *)
(* terminated with an error, and the error it returns is that task's; a    *)
(* supervised loop returning an error does not make main_daemon return.    *)
(***************************************************************************)
C20_Step ==
    /\ (daemon.state = "running" /\ daemon'.state = "returned"
            /\ daemon'.result # "Ok") =>
            \E t \in DOMAIN route_tasks :
                /\ route_tasks[t] = "err"
                /\ daemon'.result = error_of(t)
    /\ (\E l \in SupervisedLoops : loops[l] = "running" /\ loops'[l] = "failed") =>
            daemon' = daemon

C20_OnlyRouteErrorsReturn == [][C20_Step]_vars

C20_Witness ==
    /\ daemon = Returned("out_route error")
    /\ last_warning = "peel_forward"
    /\ route_tasks["out_route"] = "err"
    /\ "in_route" \in DOMAIN route_tasks
    /\ route_tasks["in_route"] = "ok"

(***************************************************************************)
(* C21: when the DHT operation behind insert_rendezvous or get_rendezvous  *)
(* fails, the control caller gets a DhtError, and the caller gets success  *)
(* only when the DHT operation succeeded.                                  *)
(***************************************************************************)
C21_DhtFailureSurfaces ==
    control_op.op # "none" =>
        (is_failure(control_op.outcome) <=> control_op.result = "DhtError")

\* what does hold: get_rendezvous hands on the failure of dht_get
GetRendezvousSurfaces ==
    control_op.op = "get_rendezvous" =>
        (is_failure(control_op.outcome) <=> control_op.result = "DhtError")

(***************************************************************************)
(* C22: send_message caches anonymous identities by the caller's handle:   *)
(* two calls with the same handle use the same identity as long as the     *)
(* entry was not dropped from the cache in between, two calls with         *)
(* different handles use different identities, and a call without a        *)
(* handle uses no anonymous identity.                                      *)
(***************************************************************************)
SendCalls == {i \in 1..Len(control_log) : control_log[i].kind = "send"}

\* the entry of call i's handle stayed in the cache until call j
entry_kept(i, j) ==
    /\ control_log[i].impl = control_log[j].impl
    /\ \A k \in i..j : ~ (/\ control_log[k].kind = "evict"
                          /\ control_log[k].handle = control_log[i].handle)

forwarded_to_haven(i) ==
    \E c \in 1..Len(rdv_sent) :
        /\ rdv_sent[c].rid = i /\ rdv_sent[c].valid /\ rdv_sent[c].ok

\* request j comes from the destination of request i and names i's source
is_reply(i, j) ==
    /\ rdv_taken[j].msg.wellformed
    /\ rdv_taken[j].src = rdv_taken[i].msg.dest_ep
    /\ rdv_taken[j].msg.dest_ep = rdv_taken[i].src

\* the cache evicted the pair of request i before request j was handled
pair_evicted(i, j) ==
    \E e \in rdv_evicted :
        /\ e.pair = <<rdv_taken[i].src, rdv_taken[i].msg.dest_ep>>
        /\ e.after \in i..(j - 1)

\* send_to was called for request j, towards the source of request i
forwarded_back(i, j) ==
    \E c \in 1..Len(rdv_sent) :
        /\ rdv_sent[c].rid = j /\ rdv_sent[c].to = rdv_taken[i].src

C23_ReturnPathKept ==
    \A i, j \in 1..Len(rdv_taken) :
        (i < j /\ forwarded_to_haven(i) /\ is_reply(i, j) /\ ~pair_evicted(i, j))
            => forwarded_back(i, j)

\* the loop returned an error on a request from i up to the one before j
loop_failed_between(i, j) == \E k \in 1..Len(rdv_log) : rdv_log[k].rid \in i..(j - 1)

\* what does hold: the return path is kept as long as the loop did not fail
ReturnPathKeptWhileRunning ==
    \A i, j \in 1..Len(rdv_taken) :
        (/\ i < j /\ forwarded_to_haven(i) /\ is_reply(i, j)
         /\ ~pair_evicted(i, j) /\ ~loop_failed_between(i, j))
            => forwarded_back(i, j)

\* a reply forwarded back after another request was handled in between
ReturnPathUsed ==
    \E i, j \in 1..Len(rdv_taken) :
        /\ i + 1 < j /\ forwarded_to_haven(i) /\ is_reply(i, j)
        /\ forwarded_back(i, j)

(***************************************************************************)
(* C24: a gossip round that failed (RPC error, refused request, rejected   *)
(* descriptor) or timed out does not end the gossip loop: the next round   *)
(* starts at the next tick of the sleep timer, and starts with the node's  *)
(* own identity inserted.                                                  *)
(***************************************************************************)
C24_FailedRoundGoesOn ==
    \A k \in 1..(MaxRounds - 1) :
        (round_ended \in {"failed", "timed out"} /\ gossip_round[observed] = k)
            ~> (/\ gossip_round[observed] = k + 1
                /\ round_ended = "running"
                /\ round_steps = <<Step("insert_identity", 0, TRUE, {})>>
                /\ observed \in relay_graph[observed].identities)

\* the second round has begun after a first round that ended in step 1,
\* without the neighbour's identity
C24_Witness ==
    /\ gossip_round[observed] = 2
    /\ round_ended = "running"
    /\ gossip_pc[observed] = "fetch_identity"
    /\ neighbor_of(observed) \notin relay_graph[observed].identities

(***************************************************************************)
(* C25: the steps of a gossip round run in a fixed order: the neighbour's  *)
(* identity, the adjacency to sign, the adjacencies RPC, then the returned *)
(* adjacencies in the order of the answer. The first failure ends the      *)
(* round: no step follows it, and the round adds no adjacency of the       *)
(* answer that comes after the one that failed.                            *)
(***************************************************************************)
adjacency_of(d) == [left |-> d.left, right |-> d.right]

C25_RoundInOrder ==
    /\ \A k \in 1..Len(round_steps) :
        LET s == round_steps[k]
        IN  /\ k = 1 => s.step = "insert_identity"
            /\ k = 2 => s.step \in {"fetch_identity", "timeout"}
            /\ k = 3 => s.step \in {"sign_adjacency", "timeout"}
            /\ k = 4 => s.step \in {"adjacencies", "timeout"}
            /\ k > 4 => \/ s.step = "timeout"
                        \/ s.step = "gossip_graph" /\ s.item = k - 4
            /\ ~s.ok => k = Len(round_steps) /\ s.added = {}
            /\ s.step = "gossip_graph" =>
                    s.added \subseteq {adjacency_of(response.list[s.item])}
    /\ round_steps # <<>> =>
        relay_graph[observed].adjacencies \ round_graph[observed].adjacencies
            = UNION {round_steps[k].added : k \in 1..Len(round_steps)}

\* the first of two returned adjacencies failed: the round is over and the
\* second, which is not in the graph, was not handled
C25_Witness ==
    /\ Len(response.list) = 2
    /\ Len(round_steps) = 5
    /\ round_steps[5] = Step("gossip_graph", 1, FALSE, {})
    /\ gossip_pc[observed] = "sleep"
    /\ response.list[2].valid
    /\ adjacency_of(response.list[2]) \notin relay_graph[observed].adjacencies

(***************************************************************************)
(* C26: main_daemon returns Ok once every in-route and out-route task has  *)
(* finished without error, at once when none is configured, and returns Ok *)
(* in no other case; when it has returned, all the loops it started (the   *)
(* supervised loops and the table's garbage collector) are dropped and do  *)
(* not run.                                                                *)
(***************************************************************************)
all_routes_ok == \A t \in DOMAIN route_tasks : route_tasks[t] = "ok"

C26_ReturnsWhenRoutesDone ==
    /\ [](daemon = Returned("Ok") => all_routes_ok)
    /\ [](daemon.state = "returned" => \A l \in DaemonLoops : loops[l] = "cancelled")
    /\ (all_routes_ok ~> daemon = Returned("Ok"))

\* both route tasks were configured and ended Ok, a loop had been restarted
\* on the way, and main_daemon has returned Ok with every loop dropped
C26_Witness ==
    /\ DOMAIN route_tasks = RouteTasks
    /\ all_routes_ok
    /\ last_warning # "none"
    /\ daemon = Returned("Ok")
    /\ \A l \in DaemonLoops : loops[l] = "cancelled"

\* no route is configured and main_daemon has returned Ok
C26_WitnessNoRoutes ==
    /\ DOMAIN route_tasks = {}
    /\ daemon = Returned("Ok")

(***************************************************************************)
(* C27, as stated: at any time at most one inbound queue is registered per *)
(* dock.                                                                   *)
(***************************************************************************)
registered_on(dock) ==
    {e \in AllLocalEndpoints : e.dock = dock /\ socket_recv_queues[e] # 0}

C27_Step ==
    \* a channel is registered under one endpoint only
    /\ \A e1, e2 \in AllLocalEndpoints :
          (e1 # e2 /\ socket_recv_queues[e1] # 0)
              => socket_recv_queues[e1] # socket_recv_queues[e2]
    \* a bind registers its new channel, in place of the endpoint's earlier one
    /\ n_sockets' # n_sockets =>
          \E e \in AllLocalEndpoints :
              /\ socket_recv_queues' = [socket_recv_queues EXCEPT ![e] = n_sockets']
              /\ socket_recv_queues[e] # 0 =>
                    \A x \in AllLocalEndpoints :
                        socket_recv_queues'[x] # socket_recv_queues[e]
    \* nothing else changes the registry: not the drop of a socket either
    /\ n_sockets' = n_sockets => socket_recv_queues' = socket_recv_queues
    /\ dropped_sockets' # dropped_sockets => socket_recv_queues' = socket_recv_queues
    \* a message is queued only on the channel registered for its dock
    /\ \A c \in 1..MaxSockets :
          Len(channels'[c]) > Len(channels[c]) =>
              \E e \in AllLocalEndpoints :
                  /\ socket_recv_queues[e] = c
                  /\ channels'[c][Len(channels'[c])].msg.dest_dock = e.dock

====
